---- MODULE Spec2Model ----
(***************************************************************************)
(* The resumable, concurrent, integrity-verified transfer core of          *)
(* scripts/download.py (generic downloader) and scripts/gh-release.py      *)
(* (release-asset fetcher).                                                *)
(*                                                                         *)
(* A run is one of the two scripts (cfg.prog).  Every action is one        *)
(* segment of a coroutine between two suspension points (await); the       *)
(* HTTP server, the network and the initial directory contents are the     *)
(* environment and are chosen nondeterministically from small sets.        *)
(***************************************************************************)
EXTENDS Integers, Sequences, FiniteSets, TLC

VARIABLES
    cfg,        \* the immutable inputs of the run: CLI options, server, files
    fs,         \* the directory: path -> [exists, data]
    sem,        \* download.py: asyncio.Semaphore(concurrency), value and waiters
    task,       \* one record per coroutine (run_one / download_one)
    succeeded,  \* download.py: list of transfers appended on success
    failed,     \* download.py: list of <<transfer, error>> appended on failure
    outcomes,   \* per transfer: the outcome of every finished attempt, in order
    slept,      \* per transfer: number of asyncio.sleep backoffs started
    faults,     \* number of network/HTTP faults the environment has injected
    conns,      \* gh-release.py: connections in use (Limits(max_connections))
    batch,      \* the batch as a whole: phase, checksum map, exit status
    fn          \* the last call of a helper function: name, arguments, result

vars == <<cfg, fs, sem, task, succeeded, failed, outcomes, slept, faults,
          conns, batch, fn>>

----------------------------------------------------------------------------
\* Bounds of the model

MaxUrls == 2        \* transfers submitted in one batch
MaxConc == 2        \* largest --concurrency / --parallel tried
ResLen == 2         \* bytes (= chunks) of every served resource
MaxFaults == 3      \* network / HTTP faults injected in a one-URL run
MaxBatchFaults == 1 \* network / HTTP faults injected in a batch of several
MaxNameLen == 3     \* characters of a name given to _sanitize_filename
MaxLineLen == 4     \* characters of a line given to parse_checksum_lines
MaxSegs == 3        \* dotted segments of an asset name
MaxEmpty == 1       \* empty chunks a response body may deliver
MaxParallel == 20   \* magnitude of the --parallel values tried

\* Program constants

attempts == 3       \* download.py: attempts per transfer
BackoffCap == 5     \* download.py: cap of the backoff sleep, seconds

----------------------------------------------------------------------------
\* Files and contents

NoFile == [exists |-> FALSE, data |-> <<>>]

File(d) == [exists |-> TRUE, data |-> d]

\* The resource served for transfer u: ResLen distinct bytes.
Body(u) == [k \in 1..ResLen |-> 10 * u + k]

\* Contents found in the directory before the run.
OldFinal == <<7, 7, 7>>
Garbage == <<0>>

Prefix(s, n) == SubSeq(s, 1, n)

Suffix(s, n) == SubSeq(s, n + 1, Len(s))

IsPrefix(p, s) == Len(p) <= Len(s) /\ Prefix(s, Len(p)) = p

\* The filename given with --name.
NamedFile == 0

PartPath(f) == <<"part", f>>

FinalPath(f) == <<"final", f>>

\* The destination names of a run: NamedFile and the names 1..n.
Paths(n) == {"part", "final"} \X (0..n)

\* f.write(chunk) on a handle opened "ab": O_APPEND, always at the end of file.
AppendBytes(d, c) == d \o c

\* f.write(chunk) on a handle opened "wb": at the handle's own position; a
\* file that was truncated under the handle is zero-filled up to it.
WriteAt(d, pos, c) ==
    LET padded == IF Len(d) < pos THEN d \o [k \in 1..(pos - Len(d)) |-> 0] ELSE d
    IN  Prefix(padded, pos) \o c \o Suffix(padded, pos + Len(c))

----------------------------------------------------------------------------
\* Digests

\* A hex digest string: the hashed content and the letter case of the hex.
NoDigest == [given |-> FALSE, of |-> <<>>, upper |-> FALSE]

\* hashlib.sha256(...).hexdigest(): lowercase hex of the file's content.
Sha256(d) == [given |-> TRUE, of |-> d, upper |-> FALSE]

\* str.lower() on a hex digest.
Lower(h) == [h EXCEPT !.upper = FALSE]

\* A checksum map without entries.
NoManifest == [a \in {} |-> NoDigest]

\* "digest.lower() != sha256.lower()"
DigestMismatch(actual, expected) == Lower(actual) # Lower(expected)

----------------------------------------------------------------------------
\* Inputs of a run

\* Destination filename of every transfer (the result of
\* _determine_filename), as a file number: two transfers may resolve to the
\* same name.  Canonical numbering: names are numbered in order of first use.
FileMaps(n) ==
    {m \in [1..n -> 1..n] :
        /\ m[1] = 1
        /\ \A i \in 2..n : \E j \in 1..(i - 1) : m[i] <= m[j] + 1}

\* Staging files a previous, interrupted run may have left behind.
StagingBefore ==
    {NoFile, File(<<>>), File(Garbage), File(Body(1)), File(Body(1) \o <<0>>)}
        \cup {File(Prefix(Body(1), s)) : s \in 1..(ResLen - 1)}

\* --sha256 values: none, the right digest in either letter case, a wrong one.
ShaOptions ==
    {NoDigest, Sha256(Body(1)), [Sha256(Body(1)) EXCEPT !.upper = TRUE],
     Sha256(Garbage)}

\* download.py with one URL: every option, every leftover of an earlier run.
\* A failing HEAD probe is tried against the server whose GET headers carry
\* both Content-Length and Accept-Ranges.
SingleConfigs ==
  {c \in
    [prog : {"download"}, n : {1}, data : {1}, manifest : {NoManifest},
     file : FileMaps(1), conc : {1}, name : {FALSE},
     budget : {MaxFaults},
     resume : BOOLEAN, overwrite : BOOLEAN, sha : ShaOptions,
     head : BOOLEAN, ranges : BOOLEAN, length : BOOLEAN,
     empty : {FALSE},
     part0 : StagingBefore, final0 : {NoFile, File(OldFinal)}]
   : c.head \/ (c.ranges /\ c.length)}

\* download.py with one URL and --name, started in an empty directory; the
\* body may arrive with empty chunks between the others.
NamedConfigs ==
    [prog : {"download"}, n : {1}, data : {1}, manifest : {NoManifest},
     file : FileMaps(1), conc : {1}, name : {TRUE},
     budget : {MaxBatchFaults},
     resume : {TRUE}, overwrite : BOOLEAN, sha : {NoDigest, Sha256(Garbage)},
     head : {TRUE}, ranges : {TRUE}, length : {TRUE},
     empty : BOOLEAN,
     part0 : {NoFile}, final0 : {NoFile}]

\* download.py with several URLs in one batch, started in an empty directory
\* with the default --resume (--sha256 and --name are given: with several
\* URLs they must be ignored).
BatchConfigs ==
    UNION {[prog : {"download"}, n : {n}, data : {n}, manifest : {NoManifest},
            file : FileMaps(n), conc : 1..MaxConc, name : {TRUE},
            budget : {MaxBatchFaults},
            resume : {TRUE}, overwrite : BOOLEAN,
            sha : {Sha256(Garbage)},
            head : {TRUE}, ranges : {TRUE}, length : BOOLEAN,
            empty : {FALSE},
            part0 : {NoFile}, final0 : {NoFile}] : n \in 2..MaxUrls}

\* gh-release.py: the selected assets of a release.  Assets 1..data are data
\* assets; with sums, asset data + 1 is the checksum bundle.  The bundle as
\* published lists a digest for data asset 1 (right or wrong) or none at all;
\* every other data asset is listed with its right digest.
GhManifests(data) ==
    {[a \in 1..data |-> IF a = 1 THEN d ELSE Sha256(Body(a))] :
        d \in {Sha256(Body(1)), Sha256(Garbage)}}
      \cup {[a \in 2..data |-> Sha256(Body(a))]}

GhConfigs ==
    UNION {[prog : {"ghrelease"}, n : {data + (IF sums THEN 1 ELSE 0)},
            data : {data}, manifest : IF sums THEN GhManifests(data) ELSE {NoManifest},
            file : {[a \in 1..(data + (IF sums THEN 1 ELSE 0)) |-> a]},
            name : {FALSE},
            conc : 1..MaxConc, budget : {MaxBatchFaults},
            resume : {TRUE}, overwrite : {TRUE}, sha : {NoDigest},
            head : {FALSE}, ranges : {TRUE}, length : BOOLEAN,
            empty : {FALSE},
            part0 : StagingBefore, final0 : {NoFile, File(OldFinal)}]
           : data \in 1..MaxUrls, sums \in BOOLEAN}

\* gh-release.py with one data asset whose body may arrive with empty
\* chunks between the others.
GhChunkConfigs ==
    [prog : {"ghrelease"}, n : {1}, data : {1}, manifest : {NoManifest},
     file : {[a \in 1..1 |-> a]}, name : {FALSE},
     conc : {1}, budget : {MaxBatchFaults},
     resume : {TRUE}, overwrite : {TRUE}, sha : {NoDigest},
     head : {FALSE}, ranges : {TRUE}, length : BOOLEAN,
     empty : {TRUE},
     part0 : {NoFile, File(Prefix(Body(1), 1))}, final0 : {NoFile}]

Configs ==
    SingleConfigs \cup NamedConfigs \cup BatchConfigs \cup GhConfigs
      \cup GhChunkConfigs

Transfers == 1..cfg.n

\* No helper function has been called on its own.
NoCall == [op |-> "none"]

\* A coroutine before its first step and between attempts.
\* total = 0 stands for Python's None ("int(...) or None", "total or ...").
Idle ==
    [pc |-> "acquire", attempt |-> 1, last_err |-> "none",
     total |-> 0, range_ok |-> FALSE, existing |-> 0, via |-> "none",
     body |-> <<>>, h |-> "none", wpos |-> 0,
     ranged |-> FALSE, offset |-> 0, status |-> 0, resp |-> {}, sleep |-> 0,
     completed |-> 0, advanced |-> 0, events |-> 0, empties |-> 0]

InitialFs(c) ==
    [p \in Paths(c.n) |->
        IF p = PartPath(1) THEN c.part0
        ELSE IF p = FinalPath(1) THEN c.final0
        ELSE NoFile]

Init ==
    /\ cfg \in Configs
    /\ fs = InitialFs(cfg)
    /\ sem = [value |-> cfg.conc, waiters |-> <<>>, granted |-> {}]
    /\ task = [i \in 1..cfg.n |-> Idle]
    /\ succeeded = <<>>
    /\ failed = <<>>
    /\ outcomes = [i \in 1..cfg.n |-> <<>>]
    /\ slept = [i \in 1..cfg.n |-> 0]
    /\ faults = 0
    /\ conns = 0
    /\ batch = [phase |-> IF cfg.prog = "download" THEN "gather" ELSE "checksums",
                map |-> NoManifest, exit |-> -1, checked |-> {}]
    /\ fn = NoCall

----------------------------------------------------------------------------
\* download.py: helpers of run_one / _download_one_async

\* Mutant of EffectiveSha: --sha256 is passed on whatever the number of URLs.
ShaForEveryUrl == cfg.sha

\* sha256 as passed to _download_one_async: only with a single URL.
EffectiveSha == IF cfg.n = 1 THEN cfg.sha ELSE NoDigest

\* name_override as passed to _download_one_async: only with a single URL.
EffectiveName == cfg.n = 1 /\ cfg.name

\* _determine_filename: the override if there is one, else the name the
\* response resolves to.
Filename(i) == IF EffectiveName THEN NamedFile ELSE cfg.file[i]

\* Content-Length of a response carrying len bytes; 0 when the header is
\* missing ("int(headers.get('content-length', '0') or 0)").
ContentLength(len) == IF cfg.length THEN len ELSE 0

\* The path a handle writes through: the inode it was opened on, under the
\* name that inode has now ("gone": no name is left, the bytes are lost).
HandlePath(t, f) == IF t.h = "final" THEN FinalPath(f) ELSE PartPath(f)

\* Other coroutines' open handles after pathlib's replace(part -> final) of
\* file f: the staging inode is now the final file, the old final is gone.
AfterReplace(t, sameFile) ==
    IF ~sameFile \/ t.h = "none" THEN t
    ELSE IF t.h = "part" THEN [t EXCEPT !.h = "final"]
    ELSE [t EXCEPT !.h = "gone"]

\* Other coroutines' open handles after unlink(part) of file f.
AfterUnlink(t, sameFile) ==
    IF sameFile /\ t.h = "part" THEN [t EXCEPT !.h = "gone"] ELSE t

\* asyncio.Semaphore.locked(): no slot is free, or a coroutine is queued
\* for one (a waiter that was handed a slot stays queued until it resumes).
Locked(s) == s.value = 0 \/ s.waiters # <<>> \/ s.granted # {}

\* _wake_up_next(): the slot goes to the first waiter that has none yet.
WakeUpNext(s) ==
    [s EXCEPT !.value = @ - 1, !.waiters = Tail(@),
              !.granted = @ \cup {Head(s.waiters)}]

\* Mutant of Release: leaving "async with sem" gives no slot back.
ReleaseKeepsSlot(s) == s

\* asyncio.Semaphore.release(), on leaving "async with sem".
Release(s) ==
    LET up == [s EXCEPT !.value = @ + 1]
    IN  IF s.waiters # <<>> THEN WakeUpNext(up) ELSE up

\* Transfer i has taken the first step of its coroutine.
Started(i) == ~(task[i].pc = "acquire" /\ task[i].attempt = 1)

\* Mutant of Scheduled: the coroutines start in any order.
ScheduledInAnyOrder(i) == TRUE

\* asyncio.gather wraps the coroutines in tasks in argument order and the
\* event loop runs the first step of each in that order.
Scheduled(i) == \A j \in 1..(i - 1) : Started(j)

\* Mutant of Backoff: the sleep is not capped.
BackoffUncapped(attempt) == 2 ^ attempt

\* Line 332: "min(2**attempt, 5)", the seconds slept after a failed attempt.
Backoff(attempt) == IF 2 ^ attempt < BackoffCap THEN 2 ^ attempt ELSE BackoffCap

\* Mutant of Raised: last_err is only set while it is still None.
RaisedKeepsFirstError(t, kind) ==
    [Idle EXCEPT !.pc = "backoff", !.attempt = t.attempt,
                 !.sleep = Backoff(t.attempt),
                 !.last_err = IF t.last_err = "none" THEN kind ELSE t.last_err]

\* The coroutine after an attempt raised: the except clause stored last_err
\* and the backoff sleep has started.
Raised(t, kind) ==
    [Idle EXCEPT !.pc = "backoff", !.attempt = t.attempt, !.last_err = kind,
                 !.sleep = Backoff(t.attempt)]

\* Mutant of Fail: the except clause retries at once, without the backoff.
FailWithoutBackoff(i, kind) ==
    /\ sem' = Release(sem)
    /\ outcomes' = [outcomes EXCEPT ![i] = Append(@, kind)]
    /\ slept' = slept
    /\ UNCHANGED <<conns, batch, cfg, succeeded, failed>>

\* An attempt of transfer i ends with an exception of the given kind:
\* "async with sem" is left (release), the matching except clause sets
\* last_err, and asyncio.sleep(min(2**attempt, 5)) is awaited.
Fail(i, kind) ==
    /\ sem' = Release(sem)
    /\ outcomes' = [outcomes EXCEPT ![i] = Append(@, kind)]
    /\ slept' = [slept EXCEPT ![i] = @ + 1]
    /\ UNCHANGED <<conns, batch, cfg, succeeded, failed>>

\* Mutant of Conflict: the overwrite flag is read the wrong way round.
ConflictInverted(f) == cfg.overwrite /\ fs[FinalPath(f)].exists

\* The overwrite check that precedes every fresh write.
Conflict(f) == ~cfg.overwrite /\ fs[FinalPath(f)].exists

\* Mutant of CanResume: a staging file of one byte is not resumed.
CanResumeOffByOne(t, existing) == existing > 1 /\ (t.range_ok \/ cfg.ranges)

\* "existing > 0 and (range_ok or _supports_ranges(r0.headers))"
CanResume(t, existing) == existing > 0 /\ (t.range_ok \/ cfg.ranges)

\* Mutant of AfterAclose: the response stays open.
AcloseLeavesOpen(open, r) == open

\* "await r.aclose()": of the responses an attempt has open, r is closed.
AfterAclose(open, r) == open \ {r}

\* Mutant of RangeStart: the range is requested from the first byte.
RangeStartZero(existing) == 0

\* The start of the requested range: "Range: bytes=<existing>-".
RangeStart(existing) == existing

IsDl == cfg.prog = "download"

----------------------------------------------------------------------------
\* download.py: the steps of run_one(i), one per suspension point

\* Mutant of Acquire: the attempt starts without waiting for a slot.
AcquireWithoutSlot(i) ==
    /\ IsDl /\ task[i].pc = "acquire"
    /\ sem' = [sem EXCEPT !.value = @ - 1]
    /\ task' = [task EXCEPT ![i].pc = "head"]
    /\ UNCHANGED <<conns, batch, cfg, fs, succeeded, failed, outcomes, slept, faults>>

\* "async with sem": sem.acquire() takes a slot at once when the semaphore
\* is not locked, and otherwise queues the coroutine behind the waiters.
Acquire(i) ==
    /\ IsDl /\ task[i].pc = "acquire"
    /\ Scheduled(i)
    /\ IF ~Locked(sem)
       THEN /\ sem' = [sem EXCEPT !.value = @ - 1]
            /\ task' = [task EXCEPT ![i].pc = "head"]
       ELSE /\ sem' = [sem EXCEPT !.waiters = Append(@, i)]
            /\ task' = [task EXCEPT ![i].pc = "waiting"]
    /\ UNCHANGED <<conns, batch, cfg, fs, succeeded, failed, outcomes, slept, faults>>

\* Mutant of Probe: the exception of a failing probe is not swallowed.
ProbeFailureRaises(i) ==
    /\ IsDl /\ task[i].pc = "head"
    /\ IF cfg.head
       THEN /\ task' = [task EXCEPT ![i].pc = "get",
                                    ![i].total = ContentLength(ResLen),
                                    ![i].range_ok = cfg.ranges]
            /\ UNCHANGED <<sem, outcomes, slept, cfg, succeeded, failed>>
       ELSE /\ task' = [task EXCEPT ![i] = Raised(@, "status")]
            /\ Fail(i, "status")
    /\ UNCHANGED <<fs, faults, conns, batch>>

\* A waiter that was handed a slot resumes inside sem.acquire(): it leaves
\* the queue and passes a slot that is still free on to the next waiter.
Admit(i) ==
    LET left == [sem EXCEPT !.granted = @ \ {i}]
    IN  /\ IsDl /\ task[i].pc = "waiting"
        /\ i \in sem.granted
        /\ sem' = IF left.value > 0 /\ left.waiters # <<>> THEN WakeUpNext(left) ELSE left
        /\ task' = [task EXCEPT ![i].pc = "head"]
        /\ UNCHANGED <<conns, batch, cfg, fs, succeeded, failed, outcomes, slept, faults>>

\* "head = await client.head(url)": a failing probe is swallowed.
Probe(i) ==
    /\ IsDl /\ task[i].pc = "head"
    /\ task' = [task EXCEPT ![i].pc = "get",
                            ![i].total = IF cfg.head THEN ContentLength(ResLen) ELSE 0,
                            ![i].range_ok = cfg.head /\ cfg.ranges]
    /\ UNCHANGED <<conns, batch, cfg, fs, sem, succeeded, failed, outcomes, slept, faults>>

\* "async with client.stream('GET', url) as r0: r0.raise_for_status()" fails.
GetFails(i) ==
    /\ IsDl /\ task[i].pc = "get"
    /\ faults < cfg.budget
    /\ faults' = faults + 1
    /\ \E kind \in {"network", "status"} :
        /\ task' = [task EXCEPT ![i] = Raised(@, kind)]
        /\ Fail(i, kind)
    /\ UNCHANGED <<fs, conns, batch>>

\* r0 arrives with a success status: name, total, and the choice of path
\* (lines 139-207, up to the first await of the chosen branch).
GetOk(i) ==
    LET t == task[i]
        f == Filename(i)
        total == IF t.total = 0 THEN ContentLength(ResLen) ELSE t.total
        part == fs[PartPath(f)]
        existing == Len(part.data)
    IN  /\ IsDl /\ t.pc = "get"
        /\ IF cfg.resume /\ part.exists /\ CanResume(t, existing)
           THEN \* await r0.aclose(), then the ranged request
                /\ task' = [task EXCEPT ![i].pc = "ranged", ![i].total = total,
                                        ![i].existing = existing,
                                        ![i].ranged = TRUE,
                                        ![i].offset = RangeStart(existing),
                                        ![i].resp = AfterAclose({"r0"}, "r0")]
                /\ UNCHANGED <<sem, outcomes, slept, cfg, succeeded, failed>>
           ELSE IF Conflict(f)
           THEN /\ task' = [task EXCEPT ![i] = Raised(@, "conflict")]
                /\ Fail(i, "conflict")
           ELSE \* stream_into_file(r0, "wb")
                /\ task' = [task EXCEPT ![i].pc = "open", ![i].total = total,
                                        ![i].via = "fresh", ![i].status = 200,
                                        ![i].body = Body(i), ![i].resp = {"r0"}]
                /\ UNCHANGED <<sem, outcomes, slept, cfg, succeeded, failed>>
        /\ UNCHANGED <<fs, faults, conns, batch>>

\* "resp = await client.get(url, headers={'Range': 'bytes=<existing>-'})" raises.
RangedFails(i) ==
    /\ IsDl /\ task[i].pc = "ranged"
    /\ faults < cfg.budget
    /\ faults' = faults + 1
    /\ task' = [task EXCEPT ![i] = Raised(@, "network")]
    /\ Fail(i, "network")
    /\ UNCHANGED <<fs, conns, batch>>

\* Mutant of ResumedTotal: the total is the length of the 206 answer.
ResumedTotalIsPartLen(existing, part_len) == part_len

\* Line 181: "(existing + part_len) if part_len else None"
ResumedTotal(existing, part_len) == IF part_len # 0 THEN existing + part_len ELSE 0

\* The ranged request is answered 206 Partial Content (the server can only
\* do so when the offset lies inside the resource).
Ranged206(i) ==
    LET t == task[i]
        part_len == ContentLength(ResLen - t.offset)
        total_effective == ResumedTotal(t.existing, part_len)
    IN  /\ IsDl /\ t.pc = "ranged"
        /\ t.offset < ResLen
        /\ task' = [task EXCEPT ![i].pc = "open", ![i].via = "resume",
                                ![i].status = 206,
                                ![i].total = total_effective,
                                ![i].completed = IF total_effective # 0
                                                 THEN t.existing ELSE 0,
                                ![i].body = Suffix(Body(i), t.offset),
                                ![i].resp = @ \cup {"resp"}]
        /\ UNCHANGED <<conns, batch, cfg, fs, sem, succeeded, failed, outcomes, slept, faults>>

\* The ranged request is answered with any other status (200: range
\* ignored, 416: not satisfiable): "await resp.aclose()".
RangedOther(i) ==
    /\ IsDl /\ task[i].pc = "ranged"
    /\ task' = [task EXCEPT ![i].pc = "fallback", ![i].status = 200,
                            ![i].resp = AfterAclose(@ \cup {"resp"}, "resp")]
    /\ UNCHANGED <<conns, batch, cfg, fs, sem, succeeded, failed, outcomes, slept, faults>>

\* Mutant of Fallback: the fresh GET is sent without the overwrite check.
FallbackWithoutCheck(i) ==
    /\ IsDl /\ task[i].pc = "fallback"
    /\ task' = [task EXCEPT ![i].pc = "freshget"]
    /\ UNCHANGED <<sem, outcomes, slept, cfg, succeeded, failed>>
    /\ UNCHANGED <<fs, faults, conns, batch>>

\* After resp.aclose(): the overwrite check, then the fresh GET is sent.
Fallback(i) ==
    /\ IsDl /\ task[i].pc = "fallback"
    /\ IF Conflict(Filename(i))
       THEN /\ task' = [task EXCEPT ![i] = Raised(@, "conflict")]
            /\ Fail(i, "conflict")
       ELSE /\ task' = [task EXCEPT ![i].pc = "freshget"]
            /\ UNCHANGED <<sem, outcomes, slept, cfg, succeeded, failed>>
    /\ UNCHANGED <<fs, faults, conns, batch>>

\* "async with client.stream('GET', url) as r: r.raise_for_status()" fails.
FreshGetFails(i) ==
    /\ IsDl /\ task[i].pc = "freshget"
    /\ faults < cfg.budget
    /\ faults' = faults + 1
    /\ \E kind \in {"network", "status"} :
        /\ task' = [task EXCEPT ![i] = Raised(@, kind)]
        /\ Fail(i, kind)
    /\ UNCHANGED <<fs, conns, batch>>

\* The fresh GET is answered with a success status: stream_into_file(r, "wb").
FreshGetOk(i) ==
    /\ IsDl /\ task[i].pc = "freshget"
    /\ task' = [task EXCEPT ![i].pc = "open", ![i].via = "fresh",
                            ![i].status = 200, ![i].body = Body(i),
                            ![i].resp = @ \cup {"r"}]
    /\ UNCHANGED <<conns, batch, cfg, fs, sem, succeeded, failed, outcomes, slept, faults>>

\* stream_into_file: "async with aiofiles.open(temp_path, mode) as f".
\* "wb" creates or truncates the staging file, "ab" creates it if missing.
OpenStaging(i) ==
    LET t == task[i]
        p == PartPath(Filename(i))
    IN  /\ IsDl /\ t.pc = "open"
        /\ fs' = [fs EXCEPT ![p] = IF t.via = "resume" /\ @.exists THEN @ ELSE File(<<>>)]
        /\ task' = [task EXCEPT ![i].pc = "stream", ![i].h = "part", ![i].wpos = 0,
                                ![i].offset = 0, ![i].range_ok = FALSE]
        /\ UNCHANGED <<conns, batch, cfg, sem, succeeded, failed, outcomes, slept, faults>>

\* Mutant of Advance: every event carries the length of a whole body.
AdvanceByBody(amount, chunk) == amount + ResLen

\* "progress.advance(task_id, len(chunk))": the amount advanced so far.
Advance(amount, chunk) == amount + Len(chunk)

\* The iterator delivers an empty chunk: "if not chunk: continue".
EmptyChunk(i) ==
    /\ IsDl /\ task[i].pc = "stream"
    /\ cfg.empty /\ task[i].empties < MaxEmpty
    /\ task' = [task EXCEPT ![i].empties = @ + 1]
    /\ UNCHANGED <<conns, batch, cfg, fs, sem, succeeded, failed, outcomes, slept, faults>>

\* One iteration of "async for chunk in resp.aiter_bytes()": the next chunk
\* arrives and "await f.write(chunk)" puts it into the staging file.
Chunk(i) ==
    LET t == task[i]
        p == HandlePath(t, Filename(i))
        c == <<Head(t.body)>>
    IN  /\ IsDl /\ t.pc = "stream"
        /\ t.body # <<>>
        /\ fs' = IF t.h = "gone" THEN fs
                 ELSE [fs EXCEPT ![p].data = IF t.via = "resume" THEN AppendBytes(@, c)
                                             ELSE WriteAt(@, t.wpos, c)]
        /\ task' = [task EXCEPT ![i].body = Tail(@), ![i].wpos = @ + 1,
                                ![i].completed = @ + Len(c),
                                ![i].advanced = Advance(@, c),
                                ![i].events = @ + 1]
        /\ UNCHANGED <<conns, batch, cfg, sem, succeeded, failed, outcomes, slept, faults>>

\* Mutant of StreamFails: the failure path removes the staging file.
StreamFailsAndCleansUp(i) ==
    /\ IsDl /\ task[i].pc = "stream"
    /\ task[i].body # <<>>
    /\ faults < cfg.budget
    /\ faults' = faults + 1
    /\ task' = [task EXCEPT ![i] = Raised(@, "network")]
    /\ Fail(i, "network")
    /\ fs' = [fs EXCEPT ![PartPath(Filename(i))] = NoFile]
    /\ UNCHANGED <<conns, batch>>

\* The connection breaks or times out while the body is being read: the
\* exception leaves stream_into_file, the staging file keeps what it has.
StreamFails(i) ==
    /\ IsDl /\ task[i].pc = "stream"
    /\ task[i].body # <<>>
    /\ faults < cfg.budget
    /\ faults' = faults + 1
    /\ task' = [task EXCEPT ![i] = Raised(@, "network")]
    /\ Fail(i, "network")
    /\ UNCHANGED <<fs, conns, batch>>

\* The body is exhausted: the file and the response are closed; then
\* "if sha256: digest = await _hash_file_async(temp_path)" or the replace.
StreamEnd(i) ==
    /\ IsDl /\ task[i].pc = "stream"
    /\ task[i].body = <<>>
    /\ task' = [task EXCEPT ![i].pc = IF EffectiveSha.given THEN "verify" ELSE "install",
                            ![i].h = "none", ![i].wpos = 0, ![i].existing = 0,
                            ![i].resp = {}, ![i].completed = 0,
                            ![i].advanced = 0, ![i].events = 0, ![i].empties = 0]
    /\ UNCHANGED <<conns, batch, cfg, fs, sem, succeeded, failed, outcomes, slept, faults>>

\* Mutant of Verify: a mismatching staging file is left in place.
VerifyKeepsStaging(i) ==
    LET f == Filename(i)
        part == fs[PartPath(f)]
    IN  /\ IsDl /\ task[i].pc = "verify"
        /\ IF ~part.exists
           THEN /\ task' = [task EXCEPT ![i] = Raised(@, "other")]
                /\ Fail(i, "other")
           ELSE IF DigestMismatch(Sha256(part.data), EffectiveSha)
           THEN /\ task' = [task EXCEPT ![i] = Raised(@, "integrity")]
                /\ Fail(i, "integrity")
           ELSE /\ task' = [task EXCEPT ![i].pc = "install"]
                /\ UNCHANGED <<sem, outcomes, slept, cfg, succeeded, failed>>
        /\ UNCHANGED <<fs, faults, conns, batch>>

\* Lines 210-219: hash the staging file; on mismatch unlink it and raise.
Verify(i) ==
    LET f == Filename(i)
        part == fs[PartPath(f)]
    IN  /\ IsDl /\ task[i].pc = "verify"
        /\ IF ~part.exists
           THEN \* open() in _sha256_file raises FileNotFoundError
                /\ task' = [task EXCEPT ![i] = Raised(@, "other")]
                /\ Fail(i, "other")
                /\ UNCHANGED <<fs, conns, batch>>
           ELSE IF DigestMismatch(Sha256(part.data), EffectiveSha)
           THEN /\ fs' = [fs EXCEPT ![PartPath(f)] = NoFile]
                /\ task' = [j \in Transfers |->
                              IF j = i THEN Raised(task[i], "integrity")
                              ELSE AfterUnlink(task[j], Filename(j) = f)]
                /\ Fail(i, "integrity")
           ELSE /\ task' = [task EXCEPT ![i].pc = "install"]
                /\ UNCHANGED <<fs, sem, outcomes, slept, cfg, succeeded, failed>>
        /\ UNCHANGED <<faults, conns, batch>>

\* Line 222: "await asyncio.to_thread(temp_path.replace, final_path)".
Install(i) ==
    LET f == Filename(i)
        part == fs[PartPath(f)]
    IN  /\ IsDl /\ task[i].pc = "install"
        /\ IF ~part.exists
           THEN \* replace raises FileNotFoundError
                /\ task' = [task EXCEPT ![i] = Raised(@, "other")]
                /\ Fail(i, "other")
                /\ UNCHANGED <<fs, conns, batch>>
           ELSE /\ fs' = [fs EXCEPT ![FinalPath(f)] = part, ![PartPath(f)] = NoFile]
                /\ task' = [j \in Transfers |->
                              IF j = i THEN [task[i] EXCEPT !.pc = "installed"]
                              ELSE AfterReplace(task[j], Filename(j) = f)]
                /\ UNCHANGED <<sem, outcomes, slept, cfg, succeeded, failed>>
        /\ UNCHANGED <<faults, conns, batch>>

\* Lines 223-225 and 312-314: "progress.update(task_id, completed=total or
\* temp_path.stat().st_size)" stats the staging path when total is unknown;
\* otherwise the attempt returns, the slot is released and the transfer is
\* appended to succeeded.
Finish(i) ==
    LET t == task[i]
        f == Filename(i)
    IN  /\ IsDl /\ t.pc = "installed"
        /\ IF t.total = 0 /\ ~fs[PartPath(f)].exists
           THEN \* stat raises FileNotFoundError: caught by "except Exception"
                /\ task' = [task EXCEPT ![i] = Raised(@, "other")]
                /\ Fail(i, "other")
           ELSE /\ task' = [task EXCEPT ![i] = [Idle EXCEPT !.pc = "done",
                                                            !.attempt = t.attempt,
                                                            !.via = t.via,
                                                            !.ranged = t.ranged,
                                                            !.status = t.status]]
                /\ sem' = Release(sem)
                /\ succeeded' = Append(succeeded, i)
                /\ outcomes' = [outcomes EXCEPT ![i] = Append(@, "ok")]
                /\ UNCHANGED <<conns, batch, cfg, failed, slept>>
        /\ UNCHANGED <<fs, faults, conns, batch>>

\* Mutant of Wake: the error is appended to failed after every failed
\* attempt, not only after the last one.
WakeRecordsEveryFailure(i) ==
    LET t == task[i]
    IN  /\ IsDl /\ t.pc = "backoff"
        /\ task' = IF t.attempt < attempts
                   THEN [task EXCEPT ![i] = [Idle EXCEPT !.attempt = t.attempt + 1,
                                                         !.last_err = t.last_err]]
                   ELSE [task EXCEPT ![i].pc = "done"]
        /\ failed' = Append(failed, <<i, t.last_err>>)
        /\ UNCHANGED <<conns, batch, cfg, fs, sem, succeeded, outcomes, slept, faults>>

\* The backoff sleep is over: the for loop takes the next attempt, or is
\* exhausted and "if last_err: failed.append((url, last_err))" runs.
Wake(i) ==
    LET t == task[i]
    IN  /\ IsDl /\ t.pc = "backoff"
        /\ IF t.attempt < attempts
           THEN /\ task' = [task EXCEPT ![i] = [Idle EXCEPT !.attempt = t.attempt + 1,
                                                            !.last_err = t.last_err]]
                /\ UNCHANGED failed
           ELSE /\ task' = [task EXCEPT ![i].pc = "done"]
                /\ failed' = IF t.last_err # "none"
                             THEN Append(failed, <<i, t.last_err>>) ELSE failed
        /\ UNCHANGED <<conns, batch, cfg, fs, sem, succeeded, outcomes, slept, faults>>

\* Mutant of DlExit: the exit status tells whether anything was downloaded.
DlExitOnNoSuccess ==
    /\ IsDl /\ batch.phase = "gather"
    /\ \A i \in Transfers : task[i].pc = "done"
    /\ batch' = [batch EXCEPT !.phase = "exit",
                              !.exit = IF succeeded = <<>> THEN 1 ELSE 0]
    /\ UNCHANGED <<cfg, fs, sem, task, succeeded, failed, outcomes, slept,
                   faults, conns>>

\* Lines 339-347: after gather, a non-empty failed list exits with code 1.
DlExit ==
    /\ IsDl /\ batch.phase = "gather"
    /\ \A i \in Transfers : task[i].pc = "done"
    /\ batch' = [batch EXCEPT !.phase = "exit",
                              !.exit = IF failed # <<>> THEN 1 ELSE 0]
    /\ UNCHANGED <<cfg, fs, sem, task, succeeded, failed, outcomes, slept,
                   faults, conns>>

----------------------------------------------------------------------------
\* gh-release.py: download_many and download_one

IsGh == cfg.prog = "ghrelease"

DataAssets == 1..cfg.data

ChecksumAssets == (cfg.data + 1)..cfg.n

\* Mutant of Gathered: one gather runs the checksum and the data assets.
GatheredAllAtOnce ==
    IF batch.phase \in {"checksums", "data"} THEN Transfers ELSE {}

\* The assets whose download_one coroutines the current gather runs.
Gathered ==
    IF batch.phase = "checksums" THEN ChecksumAssets
    ELSE IF batch.phase = "data" THEN DataAssets
    ELSE {}

\* Coroutines that still exist: after an exception left gather they run on
\* until asyncio.run cancels them.
GhRunning(a) ==
    /\ IsGh
    /\ a \in Gathered \/ batch.phase = "crashed"
    /\ task[a].pc \notin {"acquire", "done", "raised", "cancelled"}

\* parse_checksum_lines(p.read_text()) of the bundle: the published map when
\* the file holds the whole bundle, nothing when it holds anything else.
ParsedBundle(d) == IF d = Body(cfg.n) THEN cfg.manifest ELSE NoManifest

\* checksum_map.get(name)
Lookup(map, a) == IF a \in DOMAIN map THEN map[a] ELSE NoDigest

\* The size of asset a in the release listing, passed as expected_size.
ExpectedSize(a) == ResLen

\* Lines 290-296: the total of the progress bar, from the Content-Length
\* header of the response, else from expected_size; 0 stands for None.
GhTotal(a, pos, len) ==
    IF cfg.length THEN len + pos
    ELSE IF ExpectedSize(a) # 0 THEN ExpectedSize(a)
    ELSE 0

\* Line 289: "mode = 'ab' if pos > 0 else 'wb'"
GhMode(pos) == IF pos > 0 THEN "resume" ELSE "fresh"

\* Lines 278-287: the coroutine starts; an existing staging file makes the
\* request a ranged one from its size.
GhStart(a) ==
    LET part == fs[PartPath(a)]
    IN  /\ IsGh /\ a \in Gathered /\ task[a].pc = "acquire"
        /\ task' = [task EXCEPT ![a].pc = "connect",
                                ![a].existing = IF part.exists THEN Len(part.data) ELSE 0,
                                ![a].ranged = part.exists,
                                ![a].offset = IF part.exists THEN Len(part.data) ELSE 0]
        /\ UNCHANGED <<cfg, fs, sem, succeeded, failed, outcomes, slept, faults,
                       conns, batch>>

\* client.stream(...) obtains one of the max_connections connections.
GhConnect(a) ==
    /\ GhRunning(a) /\ task[a].pc = "connect"
    /\ conns < cfg.conc
    /\ conns' = conns + 1
    /\ task' = [task EXCEPT ![a].pc = "resp"]
    /\ UNCHANGED <<cfg, fs, sem, succeeded, failed, outcomes, slept, faults, batch>>

\* An exception leaves download_one (nothing catches it): gather re-raises
\* it in download_many, which unwinds.
GhRaise(a) ==
    /\ task' = [task EXCEPT ![a] = [Idle EXCEPT !.pc = "raised", !.last_err = "error"]]
    /\ conns' = conns - 1
    /\ batch' = [batch EXCEPT !.phase = "crashed"]
    /\ outcomes' = [outcomes EXCEPT ![a] = Append(@, "error")]
    /\ UNCHANGED <<cfg, fs, sem, succeeded, failed, slept>>

\* The request fails, or "r.raise_for_status()" raises on an error status
\* (a fault of the server, or 416 for an offset at or past the end).
GhRespFails(a) ==
    /\ GhRunning(a) /\ task[a].pc = "resp"
    /\ \/ faults < cfg.budget /\ faults' = faults + 1
       \/ task[a].ranged /\ task[a].offset >= ResLen /\ faults' = faults
    /\ GhRaise(a)

\* The response arrives with a success status; lines 289-300 up to
\* "with open(part, mode) as f".  A ranged request is answered 206 with the
\* rest of the resource, or 200 with all of it when the server ignores Range.
GhRespOk(a) ==
    LET t == task[a]
    IN  /\ GhRunning(a) /\ t.pc = "resp"
        /\ \E status \in {200, 206} :
            /\ status = 206 => t.ranged /\ t.offset < ResLen
            /\ LET mode == GhMode(t.existing)
                   body == IF status = 206 THEN Suffix(Body(a), t.offset) ELSE Body(a)
                   total == GhTotal(a, t.existing, Len(body))
               IN  /\ task' = [task EXCEPT ![a].pc = "stream", ![a].via = mode,
                                           ![a].status = status,
                                           ![a].h = "part", ![a].wpos = 0,
                                           ![a].body = body,
                                           ![a].total = total,
                                           ![a].completed = IF total # 0
                                                            THEN t.existing ELSE 0]
                   /\ fs' = [fs EXCEPT ![PartPath(a)] =
                                IF mode = "resume" /\ @.exists THEN @ ELSE File(<<>>)]
        /\ UNCHANGED <<cfg, sem, succeeded, failed, outcomes, slept, faults,
                       conns, batch>>

\* The iterator delivers an empty chunk: f.write(b"") writes nothing and
\* "progress.update(task_id, advance=0)" is called.
GhEmptyChunk(a) ==
    /\ GhRunning(a) /\ task[a].pc = "stream"
    /\ cfg.empty /\ task[a].empties < MaxEmpty
    /\ task' = [task EXCEPT ![a].empties = @ + 1,
                            ![a].advanced = Advance(@, <<>>),
                            ![a].events = @ + 1]
    /\ UNCHANGED <<cfg, fs, sem, succeeded, failed, outcomes, slept, faults,
                   conns, batch>>

\* "async for chunk in r.aiter_bytes(): f.write(chunk)"
GhChunk(a) ==
    LET t == task[a]
        c == <<Head(t.body)>>
    IN  /\ GhRunning(a) /\ t.pc = "stream"
        /\ t.body # <<>>
        /\ fs' = [fs EXCEPT ![PartPath(a)].data =
                     IF t.via = "resume" THEN AppendBytes(@, c)
                     ELSE WriteAt(@, t.wpos, c)]
        /\ task' = [task EXCEPT ![a].body = Tail(@), ![a].wpos = @ + 1,
                                ![a].completed = @ + Len(c),
                                ![a].advanced = Advance(@, c),
                                ![a].events = @ + 1]
        /\ UNCHANGED <<cfg, sem, succeeded, failed, outcomes, slept, faults,
                       conns, batch>>

\* The connection breaks while the body is read.
GhStreamFails(a) ==
    /\ GhRunning(a) /\ task[a].pc = "stream"
    /\ task[a].body # <<>>
    /\ faults < cfg.budget
    /\ faults' = faults + 1
    /\ GhRaise(a)

\* The body is exhausted: the file is closed and the response released.
GhStreamEnd(a) ==
    /\ GhRunning(a) /\ task[a].pc = "stream"
    /\ task[a].body = <<>>
    /\ task' = [task EXCEPT ![a].pc = "rename", ![a].h = "none", ![a].wpos = 0,
                            ![a].completed = 0, ![a].total = 0,
                            ![a].advanced = 0, ![a].events = 0, ![a].empties = 0]
    /\ conns' = conns - 1
    /\ UNCHANGED <<cfg, fs, sem, succeeded, failed, outcomes, slept, faults, batch>>

\* Lines 306-311: the size check does nothing; "part.rename(dest)".
GhRename(a) ==
    /\ GhRunning(a) /\ task[a].pc = "rename"
    /\ fs' = [fs EXCEPT ![FinalPath(a)] = fs[PartPath(a)], ![PartPath(a)] = NoFile]
    /\ task' = [task EXCEPT ![a] = [Idle EXCEPT !.pc = "done", !.via = task[a].via,
                                                 !.ranged = task[a].ranged,
                                                 !.status = task[a].status]]
    /\ outcomes' = [outcomes EXCEPT ![a] = Append(@, "ok")]
    /\ UNCHANGED <<cfg, sem, succeeded, failed, slept, faults, conns, batch>>

\* Lines 349-369: the checksum downloads are gathered and the map is built
\* from every checksum file that exists.
GhBuildMap ==
    /\ IsGh /\ batch.phase = "checksums"
    /\ \A a \in ChecksumAssets : task[a].pc = "done"
    /\ batch' = [batch EXCEPT
                    !.phase = "data",
                    !.map = IF ChecksumAssets # {} /\ fs[FinalPath(cfg.n)].exists
                            THEN ParsedBundle(fs[FinalPath(cfg.n)].data)
                            ELSE NoManifest]
    /\ UNCHANGED <<cfg, fs, sem, task, succeeded, failed, outcomes, slept,
                   faults, conns>>

\* "actual != expected.lower()" for one data asset of the verification loop.
GhMismatch(a, map) ==
    /\ fs[FinalPath(a)].exists
    /\ Lookup(map, a).given
    /\ Sha256(fs[FinalPath(a)].data) # Lower(Lookup(map, a))

\* Mutant of GhChecked: the loop stops at the first mismatch.
GhCheckedUntilFailure(map) ==
    {a \in DataAssets :
        /\ fs[FinalPath(a)].exists /\ Lookup(map, a).given
        /\ \A b \in 1..(a - 1) : ~GhMismatch(b, map)}

\* Lines 393-402: the data assets the verification loop hashes, those
\* whose file exists and for which the map gives a digest.
GhChecked(map) ==
    {a \in DataAssets : fs[FinalPath(a)].exists /\ Lookup(map, a).given}

\* Lines 403-407: "failures += 1" for every hashed asset that differs.
Failures(checked, map) == Cardinality({a \in checked : GhMismatch(a, map)})

\* Lines 388-411: the data downloads are gathered; then every installed
\* asset with a map entry is hashed, and any mismatch exits with code 2.
GhVerify ==
    /\ IsGh /\ batch.phase = "data"
    /\ \A a \in DataAssets : task[a].pc = "done"
    /\ batch' = [batch EXCEPT
                    !.phase = "exit",
                    !.checked = IF batch.map # NoManifest
                                THEN GhChecked(batch.map) ELSE {},
                    !.exit = IF batch.map # NoManifest
                                /\ Failures(GhChecked(batch.map), batch.map) > 0
                             THEN 2 ELSE 0]
    /\ UNCHANGED <<cfg, fs, sem, task, succeeded, failed, outcomes, slept,
                   faults, conns>>

\* asyncio.run ends with the exception: the coroutines still pending are
\* cancelled where they stand, their connections closed.
GhCancel ==
    /\ IsGh /\ batch.phase = "crashed"
    /\ batch' = [batch EXCEPT !.phase = "exit", !.exit = 1]
    /\ task' = [a \in Transfers |->
                  IF task[a].pc \in {"done", "raised"} THEN task[a]
                  ELSE [Idle EXCEPT !.pc = "cancelled"]]
    /\ conns' = 0
    /\ UNCHANGED <<cfg, fs, sem, succeeded, failed, outcomes, slept, faults>>

----------------------------------------------------------------------------
\* download.py: filename helpers.  A name is a sequence of characters.

\* Characters of the names tried: a letter, a space, the two path
\* separators, a control character that counts as whitespace (tab) and one
\* that does not (SOH, written "^A").
NameChars == {"a", " ", "/", "\\", "\t", "^A"}

\* Characters matched by [\x00-\x1f].
IsControl(c) == c \in {"\t", "^A"}

\* Characters removed from both ends by str.strip().
IsSpace(c) == c \in {" ", "\t"}

Names(len) == UNION {[1..k -> NameChars] : k \in 0..len}

\* The literal "download.bin".
DownloadBin == <<"d", "o", "w", "n", "l", "o", "a", "d", ".", "b", "i", "n">>

RECURSIVE LStrip(_)
LStrip(n) == IF n # <<>> /\ IsSpace(Head(n)) THEN LStrip(Tail(n)) ELSE n

RECURSIVE RStrip(_)
RStrip(n) ==
    IF n # <<>> /\ IsSpace(n[Len(n)]) THEN RStrip(SubSeq(n, 1, Len(n) - 1)) ELSE n

\* str.strip()
Strip(n) == RStrip(LStrip(n))

\* Mutant of Sanitize: the control characters are replaced before the
\* name is stripped, and the stripped name is taken as it is.
SanitizeNoFallback(name) ==
    LET r == [k \in 1..Len(name) |->
                 IF name[k] \in {"\\", "/"} \/ IsControl(name[k]) THEN "_" ELSE name[k]]
    IN  Strip(r)

\* _sanitize_filename: the separators become "_", the name is stripped,
\* the control characters that are left become "_"; "download.bin" for an
\* empty result.
Sanitize(name) ==
    LET r1 == [k \in 1..Len(name) |-> IF name[k] \in {"\\", "/"} THEN "_" ELSE name[k]]
        r2 == Strip(r1)
        r3 == [k \in 1..Len(r2) |-> IF IsControl(r2[k]) THEN "_" ELSE r2[k]]
    IN  IF r3 = <<>> THEN DownloadBin ELSE r3

\* Optional[str]: None, or a string.
Absent == [present |-> FALSE, val |-> <<>>]

Some(v) == [present |-> TRUE, val |-> v]

\* Python's truth value of an Optional[str]: None and "" are false.
Truthy(o) == o.present /\ o.val # <<>>

\* "a or b"
OrElse(a, b) == IF Truthy(a) THEN a ELSE b

\* urllib.parse.unquote: the escape "%2F" stands for every percent escape
\* and decodes to "/".
Unquote(n) == [k \in 1..Len(n) |-> IF n[k] = "%2F" THEN "/" ELSE n[k]]

\* Names a server or a user may give: empty, one character, and a name
\* with a space inside.
GivenNames ==
    {<<>>, <<"a">>, <<" ">>, <<"%2F">>, <<"a", " ", "a">>}

Optional(S) == {Absent} \cup {Some(v) : v \in S}

\* A Content-Disposition header: none, or a header that may carry
\*   filename*=<charset>'<lang>'<value>  (star; lang: a language tag is there)
\*   filename=<value> or filename="<value>"  (plain).
Dispositions ==
    {[present |-> FALSE, star |-> Absent, lang |-> FALSE, plain |-> Absent]}
      \cup [present : {TRUE}, star : Optional(GivenNames \ {<<>>}),
            lang : BOOLEAN, plain : Optional(GivenNames)]

\* The path of the final URL, up to MaxNameLen characters.
UrlPaths == UNION {[1..k -> {"a", "/", "%2F"}] : k \in 0..MaxNameLen}

\* pathlib's Path(p).name: what follows the last "/", trailing "/" ignored.
RECURSIVE PathName(_)
PathName(p) ==
    IF p = <<>> THEN <<>>
    ELSE IF p[Len(p)] = "/" THEN PathName(SubSeq(p, 1, Len(p) - 1))
    ELSE LET slashes == {k \in 1..Len(p) : p[k] = "/"}
             last == IF slashes = {} THEN 0
                     ELSE CHOOSE k \in slashes : \A j \in slashes : j <= k
         IN  Suffix(p, last)

\* _filename_from_content_disposition: the first regular expression needs
\* filename*=<charset>''<value> with nothing between the two quotes, the
\* second filename=<value> with a value of at least one character.
FilenameFromContentDisposition(cd) ==
    IF ~cd.present THEN Absent
    ELSE IF cd.star.present /\ ~cd.lang THEN Some(Unquote(cd.star.val))
    ELSE IF cd.plain.present /\ cd.plain.val # <<>> THEN Some(cd.plain.val)
    ELSE Absent

\* _filename_from_url: "Path(unquote(path)).name or None"
FilenameFromUrl(path) ==
    LET name == PathName(Unquote(path))
    IN  IF name = <<>> THEN Absent ELSE Some(name)

\* Mutant of DetermineFilename: the URL is asked before the header.
DetermineFilenameUrlFirst(cd, path, override) ==
    IF Truthy(override) THEN Sanitize(override.val)
    ELSE Sanitize(OrElse(OrElse(FilenameFromUrl(path),
                                FilenameFromContentDisposition(cd)),
                         Some(DownloadBin)).val)

\* _determine_filename(resp, override_name)
DetermineFilename(cd, path, override) ==
    IF Truthy(override) THEN Sanitize(override.val)
    ELSE Sanitize(OrElse(OrElse(FilenameFromContentDisposition(cd),
                                FilenameFromUrl(path)),
                         Some(DownloadBin)).val)

\* _determine_filename is called on a response and an override.
CallDetermineFilename ==
    /\ fn = NoCall
    /\ \E cd \in Dispositions, path \in UrlPaths, o \in Optional(GivenNames) :
          fn' = [op |-> "determine", cd |-> cd, path |-> path, override |-> o,
                 out |-> DetermineFilename(cd, path, o)]
    /\ UNCHANGED <<cfg, fs, sem, task, succeeded, failed, outcomes, slept,
                   faults, conns, batch>>

\* _sanitize_filename is called on a name.
CallSanitize ==
    /\ fn = NoCall
    /\ \E n \in Names(MaxNameLen) :
          fn' = [op |-> "sanitize", name |-> n, out |-> Sanitize(n)]
    /\ UNCHANGED <<cfg, fs, sem, task, succeeded, failed, outcomes, slept,
                   faults, conns, batch>>

----------------------------------------------------------------------------
\* gh-release.py: checksum manifests.  A line is a sequence of characters
\* in which a run of 64 hexadecimal digits is written as one character.

\* Two spellings of one digest of 64 hexadecimal digits.
Hex64 == {"h1", "H1"}

\* str.lower() of a run of 64 hexadecimal digits.
LowerHex(h) == IF h = "H1" THEN "h1" ELSE h

\* Characters of the lines tried: the two digests, one more hexadecimal
\* digit, a letter that is no hexadecimal digit, and the punctuation the
\* formats use.
LineChars == Hex64 \cup {"f", "n", " ", "*", ":", "=", "#"}

Lines(len) == UNION {[1..k -> LineChars] : k \in 0..len}

\* A dict without entries.
EmptyDict == << >>

\* d[k] = v
Put(d, k, v) == [x \in DOMAIN d \cup {k} |-> IF x = k THEN v ELSE d[x]]

\* re.match(r"^([0-9a-fA-F]{64})\s+\*?(.*)$", s)
MatchHexFirst(s) == Len(s) >= 2 /\ s[1] \in Hex64 /\ IsSpace(s[2])

\* group(2) of that match: what follows the white space and one "*".
HexFirstName(s) ==
    LET rest == LStrip(Tail(s))
    IN  IF rest # <<>> /\ Head(rest) = "*" THEN Tail(rest) ELSE rest

\* Positions of a "=" or ":" after which only white space and 64
\* hexadecimal digits follow, to the end of the line.
Separators(s) ==
    {k \in 1..(Len(s) - 1) :
        /\ s[k] \in {"=", ":"}
        /\ s[Len(s)] \in Hex64
        /\ \A j \in (k + 1)..(Len(s) - 1) : IsSpace(s[j])}

\* re.match(r"^(.*?)[=:]\s*([0-9a-fA-F]{64})$", s)
MatchNameFirst(s) == Separators(s) # {}

\* group(1) of that match: the shortest prefix before a separator.
NameFirstName(s) ==
    LET k == CHOOSE k \in Separators(s) : \A j \in Separators(s) : k <= j
    IN  SubSeq(s, 1, k - 1)

\* Mutant of ParseLine: the digest is stored as it is written.
ParseLineKeepsCase(line, checksums) ==
    LET s == Strip(line)
    IN  IF s = <<>> \/ s[1] = "#" THEN checksums
        ELSE IF MatchHexFirst(s)
             THEN Put(checksums, Strip(HexFirstName(s)), s[1])
        ELSE IF MatchNameFirst(s)
             THEN Put(checksums, Strip(NameFirstName(s)), s[Len(s)])
        ELSE checksums

\* Lines 197-208: one turn of the loop of parse_checksum_lines.
ParseLine(line, checksums) ==
    LET s == Strip(line)
    IN  IF s = <<>> \/ s[1] = "#" THEN checksums
        ELSE IF MatchHexFirst(s)
             THEN Put(checksums, Strip(HexFirstName(s)), LowerHex(s[1]))
        ELSE IF MatchNameFirst(s)
             THEN Put(checksums, Strip(NameFirstName(s)), LowerHex(s[Len(s)]))
        ELSE checksums

RECURSIVE ParseFrom(_, _)
ParseFrom(text, checksums) ==
    IF text = <<>> THEN checksums
    ELSE ParseFrom(Tail(text), ParseLine(Head(text), checksums))

\* parse_checksum_lines(text), the text given as its lines.
ParseChecksumLines(text) == ParseFrom(text, EmptyDict)

\* Lines put together into texts of two lines.
SampleLines ==
    {<<>>, <<"#", "n">>, <<"n", "n">>,
     <<"h1", " ", "n">>, <<"H1", " ", "*", "f">>,
     <<"n", ":", " ", "H1">>, <<"f", "=", "h1">>}

\* The texts tried: every line of up to MaxLineLen characters on its own,
\* and every pair of the sample lines.
Texts == {<<l>> : l \in Lines(MaxLineLen)} \cup (SampleLines \X SampleLines)

\* parse_checksum_lines is called on a text.
CallParseChecksumLines ==
    /\ fn = NoCall
    /\ \E t \in Texts :
          fn' = [op |-> "parse", text |-> t, out |-> ParseChecksumLines(t)]
    /\ UNCHANGED <<cfg, fs, sem, task, succeeded, failed, outcomes, slept,
                   faults, conns, batch>>

\* Asset names, a name being a sequence of segments: a run of letters
\* without a dot, or a dot with the letters that follow it.
Segments == {"n", ".tar", ".gz", ".tgz", ".zip", ".xz", ".txz", ".bz2", ".tbz2", ".x"}

AssetNames == UNION {[1..k -> Segments] : k \in 1..MaxSegs}

\* Line 178: the extensions, in the order they are tried.
ArchiveExts ==
    << <<".tar", ".gz">>, <<".tgz">>, <<".zip">>, <<".tar", ".xz">>, <<".txz">>,
       <<".tar", ".bz2">>, <<".tbz2">> >>

\* name.endswith(ext)
EndsWith(name, ext) ==
    /\ Len(name) >= Len(ext)
    /\ SubSeq(name, Len(name) - Len(ext) + 1, Len(name)) = ext

\* name.rsplit(".", 1)[0] if "." in name else name
RSplitDot(name) ==
    LET dots == {k \in 1..Len(name) : name[k] # "n"}
    IN  IF dots = {} THEN name
        ELSE SubSeq(name, 1, (CHOOSE k \in dots : \A j \in dots : j <= k) - 1)

\* strip_archive_ext
StripArchiveExt(name) ==
    LET hits == {k \in 1..Len(ArchiveExts) : EndsWith(name, ArchiveExts[k])}
    IN  IF hits # {}
        THEN LET k == CHOOSE k \in hits : \A j \in hits : k <= j
             IN  SubSeq(name, 1, Len(name) - Len(ArchiveExts[k]))
        ELSE RSplitDot(name)

\* None, as dict.get returns it.
None == "None"

\* dict.get(k)
Get(d, k) == IF k \in DOMAIN d THEN d[k] ELSE None

\* Digests a checksum map may hold: two runs of 64 hexadecimal digits.
MapDigests == {"h1", "h2"}

\* The checksum maps tried for an asset name: any entries under the name
\* and under the name without its last one and two segments.
ChecksumMaps(name) ==
    LET keys == {SubSeq(name, 1, Len(name) - d) : d \in 0..2 \cap 0..Len(name)}
    IN  UNION {[K -> MapDigests] : K \in SUBSET keys}

\* Mutant of ExpectedDigest: the stripped name is asked first.
ExpectedDigestStrippedFirst(map, name) ==
    LET expected == Get(map, StripArchiveExt(name))
    IN  IF expected \in {None, ""} THEN Get(map, name) ELSE expected

\* Lines 398-400: checksum_map.get(a.name) or
\* checksum_map.get(strip_archive_ext(a.name))
ExpectedDigest(map, name) ==
    LET expected == Get(map, name)
    IN  IF expected \in {None, ""} THEN Get(map, StripArchiveExt(name)) ELSE expected

\* The digest expected of an asset is looked up in a checksum map.
CallExpectedDigest ==
    /\ fn = NoCall
    /\ \E name \in AssetNames : \E map \in ChecksumMaps(name) :
          fn' = [op |-> "expected", name |-> name, map |-> map,
                 out |-> ExpectedDigest(map, name)]
    /\ UNCHANGED <<cfg, fs, sem, task, succeeded, failed, outcomes, slept,
                   faults, conns, batch>>

\* gh-release.py: the concurrency limit.

\* The range of "clamp(parallel, 1, 16)".
ParallelLo == 1

ParallelHi == 16

\* Python's max and min of two integers.
Max(a, b) == IF a >= b THEN a ELSE b

Min(a, b) == IF a <= b THEN a ELSE b

\* Mutant of clamp: max and min exchanged.
ClampMinOfMax(n, lo, hi) == Min(lo, Max(hi, n))

\* "return max(lo, min(hi, n))"
clamp(n, lo, hi) == Max(lo, Min(hi, n))

\* main: "download_many(selected, dir, clamp(parallel, 1, 16))".
CallClamp ==
    /\ fn = NoCall
    /\ \E parallel \in -MaxParallel..MaxParallel :
          fn' = [op |-> "clamp", n |-> parallel, out |-> clamp(parallel, ParallelLo, ParallelHi)]
    /\ UNCHANGED <<cfg, fs, sem, task, succeeded, failed, outcomes, slept,
                   faults, conns, batch>>

----------------------------------------------------------------------------
NextDl ==
    \/ \E i \in Transfers : Acquire(i) /\ UNCHANGED fn
    \/ \E i \in Transfers : Admit(i) /\ UNCHANGED fn
    \/ \E i \in Transfers : Probe(i) /\ UNCHANGED fn
    \/ \E i \in Transfers : GetFails(i) /\ UNCHANGED fn
    \/ \E i \in Transfers : GetOk(i) /\ UNCHANGED fn
    \/ \E i \in Transfers : RangedFails(i) /\ UNCHANGED fn
    \/ \E i \in Transfers : Ranged206(i) /\ UNCHANGED fn
    \/ \E i \in Transfers : RangedOther(i) /\ UNCHANGED fn
    \/ \E i \in Transfers : Fallback(i) /\ UNCHANGED fn
    \/ \E i \in Transfers : FreshGetFails(i) /\ UNCHANGED fn
    \/ \E i \in Transfers : FreshGetOk(i) /\ UNCHANGED fn
    \/ \E i \in Transfers : OpenStaging(i) /\ UNCHANGED fn
    \/ \E i \in Transfers : Chunk(i) /\ UNCHANGED fn
    \/ \E i \in Transfers : EmptyChunk(i) /\ UNCHANGED fn
    \/ \E i \in Transfers : StreamFails(i) /\ UNCHANGED fn
    \/ \E i \in Transfers : StreamEnd(i) /\ UNCHANGED fn
    \/ \E i \in Transfers : Verify(i) /\ UNCHANGED fn
    \/ \E i \in Transfers : Install(i) /\ UNCHANGED fn
    \/ \E i \in Transfers : Finish(i) /\ UNCHANGED fn
    \/ \E i \in Transfers : Wake(i) /\ UNCHANGED fn
    \/ DlExit /\ UNCHANGED fn

NextGh ==
    \/ \E a \in Transfers : GhStart(a) /\ UNCHANGED fn
    \/ \E a \in Transfers : GhConnect(a) /\ UNCHANGED fn
    \/ \E a \in Transfers : GhRespFails(a) /\ UNCHANGED fn
    \/ \E a \in Transfers : GhRespOk(a) /\ UNCHANGED fn
    \/ \E a \in Transfers : GhChunk(a) /\ UNCHANGED fn
    \/ \E a \in Transfers : GhEmptyChunk(a) /\ UNCHANGED fn
    \/ \E a \in Transfers : GhStreamFails(a) /\ UNCHANGED fn
    \/ \E a \in Transfers : GhStreamEnd(a) /\ UNCHANGED fn
    \/ \E a \in Transfers : GhRename(a) /\ UNCHANGED fn
    \/ GhBuildMap /\ UNCHANGED fn
    \/ GhVerify /\ UNCHANGED fn
    \/ GhCancel /\ UNCHANGED fn

Next == NextDl \/ NextGh

\* Calls of the helper functions on their own.
NextFn ==
    \/ CallSanitize
    \/ CallDetermineFilename
    \/ CallParseChecksumLines
    \/ CallExpectedDigest
    \/ CallClamp

\* A run of either script.
Spec == Init /\ [][Next]_vars

\* Runs of download.py alone and of gh-release.py alone.
InitDl == Init /\ IsDl

SpecDl == InitDl /\ [][NextDl]_vars

InitGh == Init /\ IsGh

SpecGh == InitGh /\ [][NextGh]_vars

\* Runs in which no two transfers resolve to the same filename:
\* gh-release.py, and download.py with URLs of distinct filenames.
InitSolo ==
    Init /\ (IsGh \/ \A i, j \in 1..cfg.n : cfg.file[i] = cfg.file[j] => i = j)

SpecSolo == InitSolo /\ [][Next]_vars

\* The helper functions applied to every input of the bounded sets.
InitFn ==
    Init /\ cfg \in NamedConfigs /\ cfg.overwrite /\ ~cfg.sha.given /\ ~cfg.empty

SpecFn == InitFn /\ [][NextFn]_vars

\* gh-release.py under the scheduling asyncio guarantees: a coroutine that
\* can take a step is eventually resumed, and the server eventually answers.
FairSpecGh == SpecGh /\ WF_vars(NextGh)

\* download.py under the same scheduling.
FairSpecDl == SpecDl /\ WF_vars(NextDl)

----------------------------------------------------------------------------
\* Vocabulary of the properties

\* Transfer i is inside an attempt: download.py between entering and
\* leaving "async with sem", gh-release.py while it holds a connection.
InAttempt(i) ==
    IF IsDl
    THEN task[i].pc \in {"head", "get", "ranged", "fallback", "freshget", "open",
                         "stream", "verify", "install", "installed"}
    ELSE task[i].pc \in {"resp", "stream"}

Admitted == {i \in Transfers : InAttempt(i)}

\* The digest the transfer is to be verified against, if any.
Expected(i) == IF IsDl THEN EffectiveSha ELSE Lookup(batch.map, i)

\* No two transfers of the batch resolve to the same filename.
DistinctFiles == \A i, j \in Transfers : Filename(i) = Filename(j) => i = j

\* The staging file found at the start is missing or a prefix of the resource.
CleanStart == ~cfg.part0.exists \/ IsPrefix(cfg.part0.data, Body(1))

\* Errors after which a retry can succeed.
Retryable == {"network", "status", "integrity", "other"}

FailedEntries(i) == {k \in 1..Len(failed) : failed[k][1] = i}

SucceededEntries(i) == {k \in 1..Len(succeeded) : succeeded[k] = i}

----------------------------------------------------------------------------
\* C1: with an admission limit of N, at most N transfers are inside an
\* attempt (between admission and release) in every reachable state.
C1_AdmissionLimit == Cardinality(Admitted) <= cfg.conc

\* More transfers than slots: every slot is taken by a streaming transfer
\* while another transfer waits for admission.
C1_Witness ==
    /\ IsDl /\ cfg.n > cfg.conc
    /\ Cardinality(Admitted) = cfg.conc
    /\ \A i \in Admitted : task[i].pc = "stream"
    /\ \E j \in Transfers : task[j].pc = "acquire"

\* C2: a final path changes only by one rename of the staging file onto it,
\* and a staging file for which a digest is available is renamed only when
\* its digest matches.
C2_FinalOnlyByVerifiedRename ==
    [][\A f \in 1..cfg.n :
          fs'[FinalPath(f)] # fs[FinalPath(f)] =>
             \E i \in Transfers :
                /\ Filename(i) = f
                /\ task[i].pc \in {"install", "rename"}
                /\ task'[i].pc \in {"installed", "done"}
                /\ fs[PartPath(f)].exists
                /\ fs'[FinalPath(f)] = fs[PartPath(f)]
                /\ ~fs'[PartPath(f)].exists
                /\ Expected(i).given =>
                      ~DigestMismatch(Sha256(fs[PartPath(f)].data), Expected(i))]_vars

\* The step that finds the downloaded bytes of transfer i not to match the
\* expected digest: Verify in download.py, the verification loop in
\* gh-release.py.
MismatchFound(i) ==
    IF IsDl
    THEN /\ task[i].pc = "verify" /\ task'[i].pc # "verify"
         /\ fs[PartPath(Filename(i))].exists
         /\ DigestMismatch(Sha256(fs[PartPath(Filename(i))].data), EffectiveSha)
    ELSE /\ batch.phase = "data" /\ batch'.phase = "exit"
         /\ i \in DataAssets
         /\ GhMismatch(i, batch.map)

\* C3: when the bytes of a transfer do not match the expected digest, the
\* transfer fails with an integrity error, the final path holds what it held
\* before the run and the staging file is gone.
C3_MismatchInstallsNothing ==
    [][\A i \in Transfers :
          MismatchFound(i) =>
             /\ fs'[FinalPath(Filename(i))] = InitialFs(cfg)[FinalPath(Filename(i))]
             /\ ~fs'[PartPath(Filename(i))].exists
             /\ IF IsDl THEN task'[i].last_err = "integrity" ELSE batch'.exit = 2]_vars

\* C4: while the full body sent in answer to a ranged request is streamed,
\* the staging file holds exactly the bytes of that body received so far
\* (a fresh write from offset 0 into a truncated file).
C4_Non206IsFreshWrite ==
    \A i \in Transfers :
        (task[i].pc = "stream" /\ task[i].ranged /\ task[i].status = 200) =>
            fs[PartPath(Filename(i))].data
                = Prefix(Body(i), ResLen - Len(task[i].body))

\* C5: a transfer resumed with a 206 answer from a staging file that is a
\* prefix of the resource stages and installs exactly the resource, as a
\* transfer downloaded from scratch does.
C5_ResumeEqualsFresh ==
    (DistinctFiles /\ CleanStart) =>
        \A i \in Transfers :
            (task[i].status = 206 \/ (task[i].status = 200 /\ ~task[i].ranged)) =>
                /\ task[i].pc \in {"verify", "install", "rename"} =>
                      fs[PartPath(Filename(i))] = File(Body(i))
                /\ task[i].pc \in {"installed", "done"} =>
                      fs[FinalPath(Filename(i))] = File(Body(i))

\* A staging file of one byte was resumed with 206 and installed.
C5_Witness ==
    /\ IsDl /\ cfg.part0 = File(Prefix(Body(1), 1))
    /\ task[1].pc = "done" /\ task[1].status = 206
    /\ fs[FinalPath(1)] = File(Body(1))
    /\ outcomes[1] = <<"ok">>

\* C6: an attempt that fails with a conflict is the transfer's last
\* attempt, no backoff sleep follows it, and the transfer is failed at once.
C6_ConflictIsNotRetried ==
    \A i \in Transfers :
        \A k \in 1..Len(outcomes[i]) :
            outcomes[i][k] = "conflict" =>
                /\ k = Len(outcomes[i])
                /\ slept[i] = k - 1
                /\ task[i].pc = "done"
                /\ \E e \in FailedEntries(i) : failed[e][2] = "conflict"

\* C7: when the final file exists and overwrite is disabled, the step that
\* has to choose the write path never starts a fresh write: it leaves every
\* file as it is and either turns to the ranged request or raises, and
\* without a fault what it raises is the conflict.
C7_ConflictBeforeWrite ==
    [][\A i \in Transfers :
          (/\ ~cfg.overwrite
           /\ fs[FinalPath(Filename(i))].exists
           /\ task[i].pc \in {"get", "fallback"}
           /\ task'[i].pc # task[i].pc) =>
             /\ fs' = fs
             /\ task'[i].pc \in {"ranged", "backoff"}
             /\ (task'[i].pc = "backoff" /\ faults' = faults) =>
                    task'[i].last_err = "conflict"]_vars

\* With --no-resume, a leftover staging file and an existing final file,
\* the attempt has raised the conflict and both files are as they were.
C7_Witness ==
    /\ IsDl /\ ~cfg.overwrite /\ ~cfg.resume
    /\ cfg.part0 = File(Garbage) /\ cfg.final0.exists
    /\ task[1].pc = "backoff" /\ task[1].last_err = "conflict"
    /\ fs = InitialFs(cfg)

\* C8: a transfer that failed twice with retryable errors and succeeded on
\* its third attempt is in succeeded once, not in failed, and slept twice.
C8_ThirdAttemptSucceeds ==
    \A i \in Transfers :
        (/\ IsDl /\ Len(outcomes[i]) = 3
         /\ outcomes[i][1] \in Retryable /\ outcomes[i][2] \in Retryable
         /\ outcomes[i][3] = "ok") =>
            /\ Cardinality(SucceededEntries(i)) = 1
            /\ FailedEntries(i) = {}
            /\ slept[i] = 2

C8_Witness ==
    /\ IsDl /\ Len(outcomes[1]) = 3
    /\ outcomes[1][1] = "network" /\ outcomes[1][2] = "status"
    /\ outcomes[1][3] = "ok"
    /\ task[1].pc = "done"

\* C9: no transfer makes more than 3 attempts, and a transfer whose 3
\* attempts all failed has exactly one entry in failed, with the error of
\* the third attempt.
C9_ThreeAttemptsLastError ==
    \A i \in Transfers :
        IsDl =>
            /\ Len(outcomes[i]) <= 3
            /\ task[i].attempt <= 3
            /\ (task[i].pc = "done" /\ Len(outcomes[i]) = 3 /\ outcomes[i][3] # "ok") =>
                  /\ Cardinality(FailedEntries(i)) = 1
                  /\ \A e \in FailedEntries(i) : failed[e] = <<i, outcomes[i][3]>>

\* Three failed attempts whose last error differs from the earlier ones.
C9_Witness ==
    /\ IsDl /\ task[1].pc = "done" /\ Len(outcomes[1]) = 3
    /\ outcomes[1][1] = "network" /\ outcomes[1][2] = "status"
    /\ outcomes[1][3] = "conflict"

\* C10: every backoff sleep is followed by another attempt, so a finished
\* transfer that made k attempts slept k - 1 times.
C10_SleepOnlyBeforeRetry ==
    \A i \in Transfers :
        IsDl =>
            /\ task[i].pc = "backoff" => task[i].attempt < attempts
            /\ task[i].pc = "done" => slept[i] = Len(outcomes[i]) - 1

----------------------------------------------------------------------------
\* The step in which an attempt of transfer i ends with an error.
AttemptFails(i) ==
    /\ Len(outcomes'[i]) = Len(outcomes[i]) + 1
    /\ outcomes'[i][Len(outcomes'[i])] # "ok"

\* C11: the error of one transfer stays inside that transfer: the step in
\* which an attempt fails leaves the batch and every sibling where they
\* are, and no step ever cancels a transfer.
C11_FaultIsolation ==
    [][\A i \in Transfers :
          /\ task'[i].pc # "cancelled"
          /\ AttemptFails(i) =>
                /\ batch' = batch
                /\ \A j \in Transfers \ {i} : task'[j].pc = task[j].pc]_vars

\* The batch is reported complete: download.py is past its gather and has
\* printed its lists; gh-release.py has returned from download_many or left
\* it through the verification loop.
BatchComplete == batch.phase = "exit" /\ (IsGh => batch.exit # 1)

\* C12: when the batch is reported complete every transfer is terminal, and
\* in download.py every transfer has exactly one entry in succeeded and
\* failed together, so that the two lists together have one entry per
\* transfer.
C12_EveryTransferAccounted ==
    BatchComplete =>
        /\ \A i \in Transfers : task[i].pc = "done"
        /\ IsDl =>
              /\ \A i \in Transfers :
                    Cardinality(SucceededEntries(i)) + Cardinality(FailedEntries(i)) = 1
              /\ Len(succeeded) + Len(failed) = cfg.n

\* A batch of two ended with one transfer in each list.
C12_Witness ==
    /\ IsDl /\ cfg.n = 2 /\ BatchComplete
    /\ Len(succeeded) = 1 /\ Len(failed) = 1

\* Transfer i has ended in success or in failure (an attempt that was
\* cancelled, or never started, has ended in neither).
Terminal(i) == task[i].pc \in {"done", "raised"}

\* C13: every batch eventually completes with every submitted transfer in
\* a terminal success or failure state.
C13_BatchCompletes ==
    <>(batch.phase = "exit" /\ \A i \in Transfers : Terminal(i))

\* C14: at the end of a download.py batch the exit status is nonzero
\* exactly when the failed list is not empty.
C14_ExitStatusIffFailed ==
    (IsDl /\ batch.phase = "exit") => (batch.exit # 0 <=> failed # <<>>)

\* A batch in which one transfer succeeded and one failed exits with 1.
C14_Witness ==
    /\ IsDl /\ batch.phase = "exit" /\ batch.exit = 1
    /\ succeeded # <<>> /\ failed # <<>>

\* Transfer i holds the staging file of its destination open for writing.
WritesStaging(i) == task[i].pc = "stream" /\ task[i].h = "part"

\* C15: no two transfers hold the same staging path open for writing at
\* the same time, also when they resolve to the same destination filename.
C15_OneWriterPerStaging ==
    \A i, j \in Transfers :
        (i # j /\ Filename(i) = Filename(j)) => ~(WritesStaging(i) /\ WritesStaging(j))

\* The server has reported the size of the resource of transfer i
\* (Content-Length of the HEAD or GET answer).
TotalKnown(i) == IF IsDl THEN task[i].total # 0 ELSE cfg.length

\* C16: while a transfer whose resource size is known writes its staging
\* file, and after it has written it, the staging file is not longer than
\* the resource.
C16_StagingWithinTotal ==
    \A i \in Transfers :
        (/\ TotalKnown(i)
         /\ task[i].pc \in {"stream", "verify", "install", "rename"}
         /\ fs[PartPath(Filename(i))].exists) =>
            Len(fs[PartPath(Filename(i))].data) <= ResLen

\* The step in which transfer i chooses between a ranged request and a
\* fresh write: download.py once the headers of the main GET are there,
\* gh-release.py when download_one builds its request.
Decides(i) ==
    IF IsDl
    THEN task[i].pc = "get" /\ task'[i].pc # "get" /\ faults' = faults
    ELSE task[i].pc = "acquire" /\ task'[i].pc = "connect"

\* Range support was observed from the probe or from the main response.
RangeObserved(i) == task[i].range_ok \/ cfg.ranges

\* The ranged request of transfer i starts at the size of the staging file.
RangedFromStagingSize(i) ==
    /\ task'[i].ranged
    /\ task'[i].offset = Len(fs[PartPath(Filename(i))].data)
    /\ IsDl => task'[i].pc = "ranged"

\* C17 as stated: with a staging file of any size, resume enabled and
\* range support observed, the transfer issues a ranged request that starts
\* at the staging file's size.
C17_RangeFromAnyStaging ==
    [][\A i \in Transfers :
          (/\ Decides(i)
           /\ fs[PartPath(Filename(i))].exists
           /\ cfg.resume /\ RangeObserved(i)) => RangedFromStagingSize(i)]_vars

\* C17 as amended: the same for a staging file of at least one byte.
C17_RangeFromNonEmptyStaging ==
    [][\A i \in Transfers :
          (/\ Decides(i)
           /\ fs[PartPath(Filename(i))].exists
           /\ Len(fs[PartPath(Filename(i))].data) > 0
           /\ cfg.resume /\ RangeObserved(i)) => RangedFromStagingSize(i)]_vars

\* download.py found a staging file of one byte and is sending the request
\* for the range from byte 1.
C17_Witness ==
    /\ IsDl /\ cfg.resume /\ cfg.ranges
    /\ fs[PartPath(1)] = File(Prefix(Body(1), 1))
    /\ task[1].pc = "ranged" /\ task[1].offset = 1 /\ task[1].attempt = 1

\* Transfer i was to write afresh: it sent no ranged request (no staging
\* file, no resume, no range support), or the server showed no range
\* support by answering its ranged request with the full body.
FreshCase(i) == ~task[i].ranged \/ task[i].status = 200

\* C18: a transfer that was to write afresh has, after a successful
\* stream, a staging file equal to the full body, whatever the staging file
\* held before.
C18_FreshWriteIsFullBody ==
    \A i \in Transfers :
        (/\ DistinctFiles
         /\ FreshCase(i)
         /\ task[i].pc \in {"verify", "install", "rename"}) =>
            fs[PartPath(Filename(i))] = File(Body(i))

\* C19: a failing probe does not end the attempt: the attempt goes on to
\* the main GET with size and range support unknown, and when the headers
\* of the GET answer advertise range support a non-empty staging file is
\* still resumed.
C19_ProbeFailureIsNotFatal ==
    [][\A i \in Transfers :
          (IsDl /\ ~cfg.head) =>
             /\ (task[i].pc = "head" /\ task'[i].pc # "head") =>
                   /\ task'[i].pc = "get"
                   /\ task'[i].total = 0 /\ ~task'[i].range_ok
                   /\ outcomes'[i] = outcomes[i]
             /\ (/\ Decides(i)
                 /\ cfg.resume /\ cfg.ranges
                 /\ Len(fs[PartPath(Filename(i))].data) > 0) =>
                   task'[i].pc = "ranged"]_vars

\* The probe failed, the GET answer advertised range support, and the
\* first attempt has resumed the staging file and installed the resource.
C19_Witness ==
    /\ IsDl /\ ~cfg.head /\ cfg.part0 = File(Prefix(Body(1), 1))
    /\ outcomes[1] = <<"ok">> /\ task[1].status = 206
    /\ fs[FinalPath(1)] = File(Body(1))

\* C20: a transfer for which no expected digest is available and whose
\* body was streamed to the end is installed without verification and ends
\* as a success: the staging file is renamed onto the final path, the
\* attempt that installed it is not a failed one, and the verification loop
\* of gh-release.py finds no failure when no asset has a digest.
C20_NoDigestInstallsAndSucceeds ==
    [][\A i \in Transfers :
          ~Expected(i).given =>
             /\ (/\ task[i].pc \in {"install", "rename"}
                 /\ task'[i].pc # task[i].pc
                 /\ task'[i].pc # "cancelled"
                 /\ fs[PartPath(Filename(i))].exists) =>
                   /\ fs'[FinalPath(Filename(i))] = fs[PartPath(Filename(i))]
                   /\ task'[i].pc \in {"installed", "done"}
             /\ (task[i].pc = "installed" /\ task'[i].pc # "installed") =>
                   /\ task'[i].pc = "done"
                   /\ ~AttemptFails(i)
                   /\ FailedEntries(i)' = {}
             /\ (/\ IsGh /\ batch.phase = "data" /\ batch'.phase = "exit"
                 /\ \A a \in DataAssets : ~Lookup(batch.map, a).given) =>
                   batch'.exit = 0]_vars

\* C21: in a download.py batch of several URLs no transfer is verified
\* against --sha256 and none is stored under --name; with one URL the
\* staging file is installed only if it matches --sha256, and it is stored
\* under --name and under no other name.
C21_SingleTransferOptions ==
    IsDl =>
        /\ cfg.n >= 2 =>
              /\ \A i \in Transfers :
                    /\ task[i].pc # "verify"
                    /\ \A k \in 1..Len(outcomes[i]) : outcomes[i][k] # "integrity"
              /\ ~fs[PartPath(NamedFile)].exists /\ ~fs[FinalPath(NamedFile)].exists
        /\ (cfg.n = 1 /\ cfg.sha.given /\ task[1].pc = "install") =>
              ~DigestMismatch(Sha256(fs[PartPath(Filename(1))].data), cfg.sha)
        /\ (cfg.n = 1 /\ cfg.name) =>
              ~fs[PartPath(cfg.file[1])].exists /\ ~fs[FinalPath(cfg.file[1])].exists

\* A batch of two, given --sha256 and --name, has installed both resources
\* under the names their responses resolve to.
C21_Witness ==
    /\ IsDl /\ cfg.n = 2 /\ cfg.sha.given /\ cfg.name
    /\ batch.phase = "exit" /\ Len(succeeded) = 2
    /\ fs[FinalPath(1)].exists /\ fs[FinalPath(2)].exists

\* The step in which the attempt of transfer i ends in an error other than
\* a digest mismatch, or is cancelled with the batch.
FailsUnverified(i) ==
    \/ AttemptFails(i) /\ outcomes'[i][Len(outcomes'[i])] # "integrity"
    \/ task[i].pc # "cancelled" /\ task'[i].pc = "cancelled"

\* C22: the step in which an attempt ends in an error other than a digest
\* mismatch, or is cancelled, leaves the staging file as it is: it is
\* neither deleted nor truncated.
C22_FailureKeepsStaging ==
    [][\A i \in Transfers :
          FailsUnverified(i) =>
              fs'[PartPath(Filename(i))] = fs[PartPath(Filename(i))]]_vars

\* The connection broke after the first chunk: the attempt has failed and
\* the staging file holds that chunk.
C22_Witness ==
    /\ \E i \in Transfers :
          /\ task[i].pc \in {"backoff", "raised"}
          /\ Len(outcomes[i]) = 1
          /\ fs[PartPath(Filename(i))] = File(Prefix(Body(i), 1))
    /\ cfg.part0 = NoFile

\* The size transfer i found its staging file to have when it opened it to
\* append; 0 for a write from scratch.
Base(i) == IF task[i].via = "resume" THEN task[i].existing ELSE 0

StagedPcs == {"verify", "install", "rename"}

\* C23: at the end of streaming the staging file has as many bytes as it
\* had when the attempt opened it (0 for a fresh write) plus the bytes of
\* the chunks the attempt wrote; that count does not change until the
\* install, and the installed file has the same count.
C23_InstalledCountIsStagedCount ==
    [][\A i \in Transfers :
          LET part == fs[PartPath(Filename(i))]
          IN  /\ (task[i].pc = "stream" /\ task'[i].pc \in StagedPcs) =>
                    Len(part.data) = Base(i) + task[i].wpos
              /\ (task[i].pc \in StagedPcs /\ task'[i].pc \in StagedPcs) =>
                    fs'[PartPath(Filename(i))] = part
              /\ (task[i].pc \in StagedPcs /\ task'[i].pc \in {"installed", "done"}) =>
                    Len(fs'[FinalPath(Filename(i))].data) = Len(part.data)]_vars

\* Transfer i has been admitted to the semaphore at least once.
AdmittedOnce(i) == ~(task[i].attempt = 1 /\ task[i].pc \in {"acquire", "waiting"})

Count(n, cs) == Cardinality({k \in 1..Len(n) : n[k] \in cs})

BadChars == {c \in NameChars : c \in {"/", "\\"} \/ IsControl(c)}

\* The positions of name n from its first to its last character that is
\* not whitespace.
Core(n) ==
    LET solid == {k \in 1..Len(n) : ~IsSpace(n[k])}
    IN  {k \in 1..Len(n) : \E a, b \in solid : a <= k /\ k <= b}

\* C26 as stated: the sanitized name is safe, every separator and control
\* character of the input shows as one "_" in it, and only an empty result
\* becomes "download.bin".
C26_EveryBadCharReplaced ==
    fn.op = "sanitize" =>
        /\ fn.out # <<>> /\ Count(fn.out, BadChars) = 0
        /\ fn.out # DownloadBin => Count(fn.out, {"_"}) = Count(fn.name, BadChars)

\* C26 as amended: the sanitized name is safe; every separator and every
\* control character between the first and the last non-whitespace
\* character of the input shows as one "_" in it, leading and trailing
\* whitespace (tab included) is dropped, and exactly the names made of
\* whitespace alone become "download.bin".
C26_SanitizedName ==
    fn.op = "sanitize" =>
        /\ fn.out # <<>> /\ Count(fn.out, BadChars) = 0
        /\ fn.out = DownloadBin <=> Core(fn.name) = {}
        /\ fn.out # DownloadBin =>
              /\ Len(fn.out) = Cardinality(Core(fn.name))
              /\ Count(fn.out, {"_"})
                    = Cardinality({k \in Core(fn.name) : fn.name[k] \in BadChars})

\* A name with a separator, a control character in the middle and a
\* trailing tab was sanitized.
C26_Witness ==
    /\ fn.op = "sanitize"
    /\ fn.name = <<"/", "^A", "\t">>
    /\ fn.out = <<"_", "_">>

\* The sources of a name, highest precedence first, as the call of
\* _determine_filename found them; <<>> for a source that is absent.
Sources ==
    << fn.override.val,
       FilenameFromContentDisposition(fn.cd).val,
       FilenameFromUrl(fn.path).val,
       DownloadBin >>

\* C25: the resolved name is the sanitized name of the first source, in
\* the order override, Content-Disposition, URL path, "download.bin", that
\* is not absent or empty; a quoted Content-Disposition filename with a
\* space inside is resolved with the space kept.
C25_FilenamePrecedence ==
    fn.op = "determine" =>
        /\ \A k \in 1..4 :
              (Sources[k] # <<>> /\ \A j \in 1..(k - 1) : Sources[j] = <<>>) =>
                  fn.out = Sanitize(Sources[k])
        /\ (/\ ~Truthy(fn.override) /\ fn.cd.present /\ ~fn.cd.star.present
            /\ fn.cd.plain = Some(<<"a", " ", "a">>)) => fn.out = <<"a", " ", "a">>

\* No override, a header with filename="a a" and a URL that has a name of
\* its own: the header's name was taken.
C25_Witness ==
    /\ fn.op = "determine"
    /\ ~fn.override.present
    /\ fn.cd.present /\ ~fn.cd.star.present /\ fn.cd.plain = Some(<<"a", " ", "a">>)
    /\ fn.path = <<"/", "a">>
    /\ fn.out = <<"a", " ", "a">>

\* The readings of a stripped line s under the four forms, as pairs of
\* file name and digest: the digest and white space before the name, with
\* or without "*", or the name, ":" or "=", and the digest.
Readings(s) ==
    {<<SubSeq(s, k + 1, Len(s)), s[1]>> :
        k \in {k \in 2..Len(s) : s[1] \in Hex64 /\ \A j \in 2..k : s[j] = " "}}
    \cup
    {<<SubSeq(s, k + 2, Len(s)), s[1]>> :
        k \in {k \in 2..(Len(s) - 1) :
                 s[1] \in Hex64 /\ s[k + 1] = "*" /\ \A j \in 2..k : s[j] = " "}}
    \cup
    {<<SubSeq(s, 1, k - 1), s[Len(s)]>> :
        k \in {k \in 1..(Len(s) - 1) :
                 /\ s[k] \in {":", "="} /\ s[Len(s)] \in Hex64
                 /\ \A j \in (k + 1)..(Len(s) - 1) : s[j] = " "}}

\* The entry a line stands for: none for a blank line, a comment or a
\* line of none of the forms, otherwise one of its readings, the name
\* without the white space around it and the digest in lower case.
Entries(line) ==
    LET s == Strip(line)
    IN  IF s = <<>> \/ s[1] = "#" THEN {}
        ELSE {<<Strip(r[1]), IF r[2] = "H1" THEN "h1" ELSE r[2]>> : r \in Readings(s)}

\* C27: parsing a manifest gives exactly one entry, file name -> digest in
\* lower case, for every line that is not blank, is no "#" comment and has
\* one of the forms "<64-hex> <filename>", "<64-hex> *<filename>",
\* "<filename>: <64-hex>", "<filename>=<64-hex>" (the digest in either
\* case, the file name of any length), and no entry for any other line.
C27_ManifestEntries ==
    fn.op = "parse" =>
        /\ \A k \in 1..Len(fn.text) :
              Entries(fn.text[k]) # {} =>
                  \E e \in Entries(fn.text[k]) : e[1] \in DOMAIN fn.out
        /\ \A name \in DOMAIN fn.out :
              \E k \in 1..Len(fn.text) :
                  /\ <<name, fn.out[name]>> \in Entries(fn.text[k])
                  /\ \A j \in (k + 1)..Len(fn.text) :
                        \A e \in Entries(fn.text[j]) : e[1] # name
        /\ Len(fn.text) = 1 =>
              \/ Entries(fn.text[1]) = {} /\ fn.out = EmptyDict
              \/ \E e \in Entries(fn.text[1]) : fn.out = (e[1] :> e[2])

\* C27 witness: a text of two lines, one "<64-hex> *<filename>" with the
\* digest in upper case and one "<filename>: <64-hex>", was parsed into
\* two entries with the digest in lower case.
C27_Witness ==
    /\ fn.op = "parse"
    /\ fn.text = << <<"H1", " ", "*", "f">>, <<"n", ":", " ", "H1">> >>
    /\ fn.out = (<<"f">> :> "h1") @@ (<<"n">> :> "h1")

\* The names an asset name may be looked up under once its archive
\* extension is stripped: the name without one of the listed extensions
\* at its end, else without its last dotted suffix, else the name itself.
StrippedNames(name) ==
    LET listed == {<<".tar", ".gz">>, <<".tgz">>, <<".zip">>, <<".tar", ".xz">>,
                   <<".txz">>, <<".tar", ".bz2">>, <<".tbz2">>}
        prefixes == {SubSeq(name, 1, k) : k \in 0..Len(name)}
        dotted == {<<d>> \o ns : d \in Segments \ {"n"},
                                 ns \in UNION {[1..k -> {"n"}] : k \in 0..MaxSegs}}
        byExt == {b \in prefixes : \E e \in listed : name = b \o e}
        bySuffix == {b \in prefixes : \E e \in dotted : name = b \o e}
    IN  IF byExt # {} THEN byExt
        ELSE IF bySuffix # {} THEN bySuffix
        ELSE {name}

\* C28: the digest expected of an asset is the entry under its exact name
\* when there is one, whatever is stored under the stripped name;
\* otherwise the entry under the name with its archive extension stripped
\* (.tar.gz, .tgz, .zip, .tar.xz, .txz, .tar.bz2, .tbz2, else the last
\* dotted suffix); otherwise there is none.
C28_ExactThenStripped ==
    fn.op = "expected" =>
        /\ fn.name \in DOMAIN fn.map => fn.out = fn.map[fn.name]
        /\ fn.name \notin DOMAIN fn.map =>
              /\ Cardinality(StrippedNames(fn.name)) = 1
              /\ \A b \in StrippedNames(fn.name) :
                    fn.out = IF b \in DOMAIN fn.map THEN fn.map[b] ELSE "None"

\* C28 witness: "n.tar.gz" was looked up in a map without an entry under
\* that name and with different entries under "n" and "n.tar", and the
\* one under "n" came out.
C28_Witness ==
    /\ fn.op = "expected"
    /\ fn.name = <<"n", ".tar", ".gz">>
    /\ fn.map = (<<"n">> :> "h2") @@ (<<"n", ".tar">> :> "h1")
    /\ fn.out = "h2"

\* Transfer i is in the attempt that follows a digest mismatch.
AfterMismatch(i) ==
    /\ IsDl /\ InAttempt(i)
    /\ outcomes[i] # <<>>
    /\ outcomes[i][Len(outcomes[i])] = "integrity"

\* C29: the attempt that follows a digest mismatch never resumes: no
\* ranged request is sent; the staging file is written only after the
\* overwrite check has passed, from offset 0, and holds nothing but the
\* bytes this attempt has written.
C29_RetryAfterMismatchIsFresh ==
    \A i \in Transfers :
        AfterMismatch(i) =>
            LET t == task[i]
                part == fs[PartPath(Filename(i))]
            IN  /\ ~t.ranged /\ t.via # "resume"
                /\ t.pc \notin {"ranged", "fallback", "freshget"}
                /\ t.pc \in {"head", "get"} => ~part.exists
                /\ t.pc \in {"open", "stream"} => ~Conflict(Filename(i))
                /\ t.pc = "stream" => part = File(Prefix(Body(i), t.wpos))
                /\ t.pc \in {"verify", "install"} => part = File(Body(i))

\* C29 witness: a stale staging file was resumed and failed verification;
\* the next attempt wrote the whole body afresh and it was installed.
C29_Witness ==
    \E i \in Transfers :
        /\ IsDl /\ cfg.part0.exists /\ cfg.part0.data # <<>>
        /\ outcomes[i] = <<"integrity", "ok">>
        /\ task[i].via = "fresh"
        /\ fs[FinalPath(Filename(i))] = File(Body(i))

\* The staging file of transfer i holds no byte of another transfer's
\* resource.
OwnBytes(i) ==
    \A k \in DOMAIN fs[PartPath(Filename(i))].data :
        \A j \in Transfers \ {i} :
            \A m \in DOMAIN Body(j) : fs[PartPath(Filename(i))].data[k] # Body(j)[m]

\* An attempt of transfer i has failed on the network and has left a
\* staging file that is not empty; resume is enabled and the server
\* announces range support; the retry has not had its GET answer yet.
LeftBehind(i) ==
    /\ IsDl
    /\ task[i].pc \in {"backoff", "acquire", "waiting", "head", "get"}
    /\ outcomes[i] # <<>>
    /\ outcomes[i][Len(outcomes[i])] = "network"
    /\ fs[PartPath(Filename(i))].exists
    /\ fs[PartPath(Filename(i))].data # <<>>
    /\ OwnBytes(i)
    /\ cfg.resume /\ cfg.ranges

\* C30: the b > 0 bytes an attempt leaves in the staging file when it fails
\* mid-stream are what the retry of that transfer finds: the file is not
\* touched until the retry has its GET answer, the retry then requests the
\* range starting at b, and after a 206 answer it opens the file without
\* truncating it and every chunk is added behind the bytes already there.
C30_RetryResumesFromStaged ==
    [][\A i \in Transfers :
          LET p == PartPath(Filename(i))
              b == Len(fs[p].data)
          IN  /\ LeftBehind(i) => fs'[p] = fs[p]
              /\ (LeftBehind(i) /\ task[i].pc = "get"
                    /\ task'[i].pc \notin {"get", "backoff"}) =>
                    (task'[i].pc = "ranged" /\ task'[i].offset = b)
              /\ (/\ IsDl /\ task[i].via = "resume" /\ task[i].status = 206
                  /\ task[i].pc \in {"open", "stream"}
                  /\ task'[i].pc = "stream") =>
                    /\ fs'[p].exists
                    /\ Prefix(fs'[p].data, b) = fs[p].data
                    /\ Len(fs'[p].data) = b + (task'[i].wpos - task[i].wpos)]_vars

\* The final file of transfer i was there before the run, and the run may
\* not overwrite it.
Protected(i) ==
    /\ IsDl /\ ~cfg.overwrite /\ cfg.final0.exists
    /\ Filename(i) = 1
    /\ fs[FinalPath(Filename(i))].exists

\* The attempt of transfer i has to write afresh: there is no staging
\* file or an empty one, resume is disabled, or no range support is seen.
MustWriteFresh(i) ==
    LET part == fs[PartPath(Filename(i))]
    IN  \/ ~part.exists \/ part.data = <<>>
        \/ ~cfg.resume
        \/ ~(task[i].range_ok \/ cfg.ranges)

\* C31: with overwrite disabled and a final file found before the run, a
\* step changes the final file only when it is the install of an attempt
\* that appended the body of a 206 answer; an attempt that has to write
\* afresh (no or empty staging file, resume disabled, no range support, or
\* another answer than 206 to the ranged request) changes no file and
\* ends, unless a fault ends it first, with the conflict.
C31_OnlyResumeReplacesFinal ==
    [][\A i \in Transfers :
          Protected(i) =>
            /\ fs'[FinalPath(Filename(i))] # fs[FinalPath(Filename(i))] =>
                  /\ task[i].pc = "install" /\ task'[i].pc = "installed"
                  /\ task[i].via = "resume" /\ task[i].status = 206
                  /\ task[i].ranged
            /\ (\/ task[i].pc = "get" /\ MustWriteFresh(i)
                \/ task[i].pc = "fallback") /\ task'[i].pc # task[i].pc =>
                  /\ fs' = fs
                  /\ task'[i].pc = "backoff"
                  /\ faults' = faults => task'[i].last_err = "conflict"
            /\ task'[i].pc \notin {"freshget"}
            /\ task'[i].pc \in {"open", "stream"} => task'[i].via = "resume"]_vars

\* C31 witness: overwrite is disabled, the final file of an earlier run
\* and a staging prefix were found, the resumed attempt has replaced the
\* final file with the resource, and the attempt after it (the first one
\* was counted as failed) has raised the conflict.
C31_Witness ==
    /\ IsDl /\ ~cfg.overwrite /\ cfg.final0 = File(OldFinal)
    /\ cfg.part0 = File(Prefix(Body(1), 1))
    /\ fs[FinalPath(Filename(1))] = File(Body(1))
    /\ task[1].pc = "backoff" /\ task[1].last_err = "conflict"
    /\ task[1].attempt = 2

\* The transfers that hold a slot of the semaphore: those inside
\* "async with sem", and the waiters a released slot was handed to.
SlotHolders == {i \in Transfers : InAttempt(i)} \cup sem.granted

\* C32: in download.py the slots taken are exactly those of the transfers
\* whose attempt is executing: a transfer that waits for its first slot,
\* sleeps in its backoff or has ended holds none, so every exit from an
\* attempt has given its slot back before the sleep begins; when the batch
\* is complete all the slots are free.
C32_SlotOnlyDuringAttempt ==
    IsDl =>
        /\ sem.value + Cardinality(SlotHolders) = cfg.conc
        /\ \A i \in Transfers :
              task[i].pc \in {"acquire", "backoff", "done"} => i \notin SlotHolders
        /\ sem.value >= 0
        /\ BatchComplete => (sem.value = cfg.conc /\ sem.waiters = <<>>)

\* C32 witness: with one slot and two URLs, the first transfer failed and
\* sleeps in its backoff while the second executes its attempt with the
\* slot the first gave back.
C32_Witness ==
    /\ IsDl /\ cfg.conc = 1 /\ cfg.n = 2
    /\ task[1].pc = "backoff"
    /\ task[2].pc = "stream"
    /\ sem.value = 0

\* The connections transfer i needs from the pool: one for each response
\* it has open and one for a request it has sent and awaits.
Demand(i) ==
    Cardinality(task[i].resp)
      + (IF task[i].pc \in {"head", "get", "ranged", "freshget"} THEN 1 ELSE 0)

RECURSIVE TotalDemand(_)
TotalDemand(S) ==
    IF S = {} THEN 0
    ELSE LET i == CHOOSE i \in S : TRUE IN Demand(i) + TotalDemand(S \ {i})

\* C33: an attempt of download.py never has more than one response open,
\* nor an open response while it awaits the answer to a request; only an
\* admitted transfer has one, so that the transfers together never need
\* more connections than the pool has (max_connections = concurrency) and
\* no request has to wait for a connection held by another transfer.
C33_OneResponsePerAttempt ==
    IsDl =>
        /\ \A i \in Transfers :
              /\ Cardinality(task[i].resp) <= 1
              /\ Demand(i) <= 1
              /\ Demand(i) > 0 => InAttempt(i)
        /\ TotalDemand(Transfers) <= cfg.conc

\* C33 witness: the ranged request was answered with another status than
\* 206; the first response and the ranged one are closed and the fresh GET
\* is the only response open while its body is written.
C33_Witness ==
    \E i \in Transfers :
        /\ IsDl /\ task[i].pc = "stream"
        /\ task[i].ranged /\ task[i].via = "fresh"
        /\ task[i].resp = {"r"}

\* C34: in gh-release.py a data asset's download starts only when every
\* checksum asset's download has finished and the checksum map has been
\* built; the map is written once, from the checksum files, before any
\* data asset has started, and never changes afterwards.
C34_MapBeforeData ==
    [][IsGh =>
          /\ \A a \in DataAssets :
                (task[a].pc = "acquire" /\ task'[a].pc = "connect") =>
                    /\ \A c \in ChecksumAssets : task[c].pc = "done"
                    /\ batch.phase = "data"
          /\ batch.phase # "checksums" => batch'.map = batch.map
          /\ batch'.map # batch.map =>
                /\ \A c \in ChecksumAssets : task[c].pc = "done"
                /\ \A a \in DataAssets : task[a].pc = "acquire"
                /\ batch'.phase = "data"]_vars

\* C34 witness: the bundle was downloaded, the map built from it has an
\* entry, and a data asset is being downloaded.
C34_Witness ==
    /\ IsGh /\ ChecksumAssets # {}
    /\ \A c \in ChecksumAssets : task[c].pc = "done"
    /\ batch.map # NoManifest /\ batch.map = cfg.manifest
    /\ \E a \in DataAssets : task[a].pc = "stream"

\* C35: the sleep that follows the k-th failed attempt of a transfer lasts
\* 2, 4 and 5 seconds for k = 1, 2 and 3: min(2^k, 5), never more than the
\* cap of 5 and never less than the sleep before it.
C35_BackoffSeconds ==
    \A i \in Transfers :
        (IsDl /\ task[i].pc = "backoff") =>
            LET k == task[i].attempt
            IN  /\ k \in 1..3
                /\ Len(outcomes[i]) = k
                /\ task[i].sleep = <<2, 4, 5>>[k]
                /\ task[i].sleep <= 5
                /\ \A j \in 1..k : Backoff(j) <= task[i].sleep

\* C35 witness: a transfer sleeps 5 seconds after its third failed attempt.
C35_Witness ==
    \E i \in Transfers :
        /\ IsDl /\ task[i].pc = "backoff"
        /\ task[i].attempt = 3 /\ Len(outcomes[i]) = 3
        /\ task[i].sleep = 5

\* Transfer i writes the body of a 206 answer to its staging file.
Resumed206(i) ==
    /\ task[i].status = 206
    /\ IF IsDl THEN task[i].pc \in {"open", "stream"} /\ task[i].via = "resume"
       ELSE task[i].pc = "stream"

\* The content length of the answer transfer i is writing, 0 when the
\* header is missing: the bytes still to come and those already written.
AnswerLength(i) ==
    IF cfg.length THEN Len(task[i].body) + task[i].wpos ELSE 0

\* The completed count the progress of transfer i started from.
StartCompleted(i) == task[i].completed - task[i].wpos

\* C36 as stated: after a 206 answer to a resume from offset E the total
\* is E + L when the content length L is known and not zero, and unknown
\* otherwise; the completed count starts at E when the total is known and
\* at 0 when it is not.
C36_ResumedTotalOrUnknown ==
    \A i \in Transfers :
        Resumed206(i) =>
            LET E == task[i].existing
                L == AnswerLength(i)
            IN  /\ task[i].total = IF L # 0 THEN E + L ELSE 0
                /\ StartCompleted(i) = IF task[i].total # 0 THEN E ELSE 0

\* C36 amended: after a 206 answer to a resume from offset E the total is
\* E + L when the content length L is known (and, in download.py, not
\* zero); without it download.py has no total, while gh-release.py takes
\* the size the release lists for the asset; the completed count starts
\* at E when there is a total and at 0 when there is none.
C36_ResumedTotal ==
    \A i \in Transfers :
        Resumed206(i) =>
            LET E == task[i].existing
                L == AnswerLength(i)
            IN  /\ task[i].total = IF L # 0 THEN E + L
                                   ELSE IF IsDl THEN 0
                                   ELSE ExpectedSize(i)
                /\ StartCompleted(i) = IF task[i].total # 0 THEN E ELSE 0

\* C36 witness: download.py resumed from 1 byte, the 206 answer announced
\* the remaining length, and after one chunk the total is that of the
\* resource and the completed count 1 more than the offset.
C36_Witness ==
    \E i \in Transfers :
        /\ IsDl /\ Resumed206(i) /\ task[i].pc = "stream"
        /\ task[i].existing = 1 /\ task[i].wpos = 1
        /\ task[i].total = ResLen
        /\ task[i].completed = 2

\* C37 as stated: while an attempt writes its staging file, the amounts
\* advanced add up to the number of bytes it has written, and there is one
\* event for each chunk written, none for an empty chunk.
C37_AdvanceOnlyForWrittenChunks ==
    \A i \in Transfers :
        task[i].pc = "stream" =>
            /\ task[i].advanced = task[i].wpos
            /\ task[i].events = task[i].wpos

\* C37 amended: while an attempt writes its staging file, the amounts
\* advanced add up to the number of bytes it has written; every chunk
\* written has one event with its length; for an empty chunk nothing is
\* written, download.py emits no event and gh-release.py one of amount 0.
C37_AdvancedIsWritten ==
    \A i \in Transfers :
        task[i].pc = "stream" =>
            /\ task[i].advanced = task[i].wpos
            /\ task[i].completed = StartCompleted(i) + task[i].advanced
            /\ task[i].events = task[i].wpos + (IF IsDl THEN 0 ELSE task[i].empties)
            /\ task[i].h = "part" /\ DistinctFiles =>
                  Len(fs[PartPath(Filename(i))].data) = Base(i) + task[i].advanced

\* C37 witness: download.py has written one chunk, an empty chunk has come
\* and gone, and one event of one byte has been emitted.
C37_Witness ==
    \E i \in Transfers :
        /\ IsDl /\ task[i].pc = "stream"
        /\ task[i].wpos = 1 /\ task[i].empties = 1
        /\ task[i].advanced = 1 /\ task[i].events = 1

\* Transfer i has been reported as succeeded: download.py appended it to
\* succeeded, download_one of gh-release.py returned its destination.
ReportedSucceeded(i) ==
    IF IsDl THEN SucceededEntries(i) # {} ELSE task[i].pc = "done"

\* Transfer i has streamed its body and the check of its digest has not
\* ended: download.py is about to hash the staging file, gh-release.py has
\* a map entry for the asset and has not finished its verification loop.
AwaitingVerification(i) ==
    IF IsDl
    THEN task[i].pc = "verify" /\ EffectiveSha.given
    ELSE /\ i \in DataAssets /\ task[i].pc \in {"rename", "done"}
         /\ batch.phase = "data" /\ Lookup(batch.map, i).given

\* C38: a transfer reported as succeeded has no staging file and has its
\* final file, and from the end of streaming to the end of verification the
\* staging file is in place, not renamed.
C38_StagingKeptUntilVerified ==
    \A i \in Transfers :
        /\ (ReportedSucceeded(i) /\ DistinctFiles) =>
              /\ ~fs[PartPath(Filename(i))].exists
              /\ fs[FinalPath(Filename(i))].exists
        /\ AwaitingVerification(i) => fs[PartPath(Filename(i))].exists

\* The run of gh-release.py has come to the end of download_many: both
\* gathers returned and the verification, if any, is over.
VerificationOver == IsGh /\ batch.phase = "exit" /\ batch.exit \in {0, 2}

\* The data assets downloaded for which the manifest gives a digest.
ListedAssets ==
    {a \in DataAssets : task[a].pc = "done" /\ Lookup(batch.map, a).given}

\* C39: when gh-release.py ends its verification, every downloaded data
\* asset with a manifest entry has been checked, whatever the outcome of
\* the others, and the exit status is 2 exactly when the digest of one of
\* the checked assets differs from its entry; no run exits with 2 otherwise.
C39_AllCheckedExitTwoIffMismatch ==
    /\ VerificationOver =>
          /\ batch.checked = ListedAssets
          /\ batch.exit = 2 <=>
                \E a \in batch.checked :
                    Sha256(fs[FinalPath(a)].data) # Lower(Lookup(batch.map, a))
    /\ batch.exit = 2 => VerificationOver

\* C39 witness: the first of two listed assets mismatched, the second one
\* was checked all the same, and the run exits with 2.
C39_Witness ==
    /\ VerificationOver /\ batch.exit = 2
    /\ batch.checked = {1, 2}
    /\ Sha256(fs[FinalPath(1)].data) # Lower(Lookup(batch.map, 1))
    /\ Sha256(fs[FinalPath(2)].data) = Lower(Lookup(batch.map, 2))

\* C40: the concurrency limit gh-release.py hands to download_many lies in
\* 1..16 for every --parallel value: it is 1 for a value below 1, 16 for a
\* value above 16, and the value itself otherwise.
C40_ParallelClamped ==
    fn.op = "clamp" =>
        /\ fn.out \in 1..16
        /\ fn.n < 1 => fn.out = 1
        /\ fn.n > 16 => fn.out = 16
        /\ fn.n \in 1..16 => fn.out = fn.n

\* C40 witness: a value above the range came out as 16.
C40_Witness == fn.op = "clamp" /\ fn.n = 17 /\ fn.out = 16


====
